---------------------------- MODULE Spec2Model ----------------------------
(***************************************************************************)
(* A model of the rdm indexing pipeline of src/rdm/Indexer.cpp:            *)
(*   Indexer        the job coordinator (index, onJobDone, customEvent),   *)
(*   IndexerJob     one parse job, run on a thread of the worker pool,     *)
(*   IndexerSyncer  the accumulator buffers and the flusher thread,        *)
(*   DirtyJob       the store sweep followed by the re-index requests.     *)
(* Sections of code that run under one mutex are one action.               *)
(***************************************************************************)
EXTENDS Integers, Sequences, FiniteSets, TLC

\* ------------------------------------------------------------------ bounds
MaxJobs == 3        \* index admits a job only while lastJobId < MaxJobs
PoolSize == 1       \* threads of QThreadPool::globalInstance()
MaxDirChanges == 1  \* directory-change events delivered in one run
MaxFewJobs == 1     \* parse jobs in the specifications that run every thread
MaxReindexJobs == 4 \* as MaxJobs, where the run starts after two parse jobs
MaxBatchJobs == 2   \* parse jobs admitted where the run starts late in a batch

\* ------------------------------------------------------- the source tree
\* The files the parser library sees.  PchH is compiled as a precompiled
\* header, Cpp is a source file that uses it and calls a function that the
\* system header Sys declares.
PchH == "/d/p.h"
Cpp == "/d/c.cpp"
Sys == "/usr/s.h"
Dir == "/d/"
TUs == {PchH, Cpp}
Files == {PchH, Cpp, Sys}

PchArgs == <<"-x", "c++-header">>
ConsArgs == <<"-I/d", "-include-pch", PchH, "-DX">>
PlainArgs == <<"-x", "c++">>

\* The argument vectors a caller passes to index for each translation unit.
ArgChoices(t) == IF t = PchH THEN {PchArgs} ELSE {ConsArgs, PlainArgs}

\* ------------------------------------------------------------- QList, QHash
\* QList<T>::indexOf: the 0-based index of the first element equal to x, or -1.
RECURSIVE IndexOfFrom(_, _, _)
IndexOfFrom(s, x, i) ==
    IF i > Len(s) THEN -1
    ELSE IF s[i] = x THEN i - 1
    ELSE IndexOfFrom(s, x, i + 1)

IndexOf(s, x) == IndexOfFrom(s, x, 1)

\* QList<T>::removeAt(i), i 0-based: does nothing when i is out of range.
RemoveAt(s, i) ==
    IF i >= 0 /\ i < Len(s)
    THEN [k \in 1..(Len(s) - 1) |-> IF k <= i THEN s[k] ELSE s[k + 1]]
    ELSE s

\* A QHash is a function whose domain is its key set.
EmptyHash == <<>>

Value(h, k) == IF k \in DOMAIN h THEN h[k] ELSE {}

\* h[k].unite(s), creating the key as operator[] does.
UniteAt(h, k, s) ==
    [x \in (DOMAIN h) \cup {k} |-> IF x = k THEN Value(h, k) \cup s ELSE h[x]]

\* h[k] = v
PutAt(h, k, v) == [x \in (DOMAIN h) \cup {k} |-> IF x = k THEN v ELSE h[x]]

\* The hash of set-valued entries obtained by uniting every entry of d into h.
UniteAll(h, d) ==
    [x \in (DOMAIN h) \cup (DOMAIN d) |-> Value(h, x) \cup Value(d, x)]


\* ------------------------------------------------------ argument vectors
\* extractPchFiles: the values that follow each -include-pch, empty
\* arguments skipped.
RECURSIVE ExtractFrom(_, _, _)
ExtractFrom(args, i, nextIsPch) ==
    IF i > Len(args) THEN <<>>
    ELSE IF args[i] = "" THEN ExtractFrom(args, i + 1, nextIsPch)
    ELSE IF nextIsPch THEN <<args[i]>> \o ExtractFrom(args, i + 1, FALSE)
    ELSE ExtractFrom(args, i + 1, args[i] = "-include-pch")

extractPchFiles(args) == ExtractFrom(args, 1, FALSE)

\* pchFileName: the artifact of a header in the project storage.
pchFileName(path, header) == path \o "sha256:" \o header

StoragePath == "/store/"

\* #define SYNCINTERVAL 10
SYNCINTERVAL == 10

\* One pass over pchHeaders of the do-while body of IndexerJob::run, under
\* implMutex.  ok records Q_ASSERT(idx > 0); wait is the flag of the pass.
RECURSIVE WaitPassFrom(_, _, _, _, _)
WaitPassFrom(hs, i, args, errs, inFlight) ==
    IF i > Len(hs) THEN [args |-> args, wait |-> FALSE, ok |-> TRUE]
    ELSE IF hs[i] \in errs
         THEN LET idx == IndexOf(args, hs[i])
                  rest == WaitPassFrom(hs, i + 1,
                                       RemoveAt(RemoveAt(args, idx), idx - 1),
                                       errs, inFlight)
              IN  [rest EXCEPT !.ok = rest.ok /\ idx > 0]
         ELSE IF hs[i] \in inFlight
              THEN [args |-> args, wait |-> TRUE, ok |-> TRUE]
              ELSE WaitPassFrom(hs, i + 1, args, errs, inFlight)

\* The pass without the two removeAt calls.
WaitPassKeepsPairs(hs, args, errs, inFlight) ==
    [WaitPassFrom(hs, 1, args, errs, inFlight) EXCEPT !.args = args]

WaitPass(hs, args, errs, inFlight) == WaitPassFrom(hs, 1, args, errs, inFlight)

\* The argument loop of IndexerJob::run: the clang argument vector and mIsPch.
RECURSIVE RewriteFrom(_, _, _, _, _)
RewriteFrom(args, i, nextIsPch, nextIsX, isPchNow) ==
    IF i > Len(args) THEN [clangArgs |-> <<>>, mIsPch |-> isPchNow]
    ELSE IF args[i] = "" THEN RewriteFrom(args, i + 1, nextIsPch, nextIsX, isPchNow)
    ELSE IF nextIsPch
         THEN LET rest == RewriteFrom(args, i + 1, FALSE, nextIsX, isPchNow)
              IN  [rest EXCEPT !.clangArgs =
                       <<pchFileName(StoragePath, args[i])>> \o rest.clangArgs]
         ELSE LET p == IF nextIsX THEN args[i] \in {"c++-header", "c-header"}
                                  ELSE isPchNow
                  rest == RewriteFrom(args, i + 1, args[i] = "-include-pch",
                                      args[i] /= "-include-pch" /\ args[i] = "-x", p)
              IN  [rest EXCEPT !.clangArgs = <<args[i]>> \o rest.clangArgs]

Rewrite(args) == RewriteFrom(args, 1, FALSE, FALSE, FALSE)

\* isPch of the watch handler: decided by the argument after the first -x.
RECURSIVE IsPchFrom(_, _, _)
IsPchFrom(args, i, nextIsX) ==
    IF i > Len(args) THEN FALSE
    ELSE IF nextIsX THEN args[i] \in {"c++-header", "c-header"}
    ELSE IsPchFrom(args, i + 1, args[i] = "-x")

isPch(args) == IsPchFrom(args, 1, FALSE)


\* ------------------------------------------------------ the parser library
\* What libclang reports for each translation unit of the source tree.
\* A Location is <<path, offset>>; NullLoc is the null Location.
NullLoc == <<"", 0>>

Loc(path, offset) == <<path, offset>>

\* clang_getInclusions: every included file with its include stack (the
\* main file has an empty stack).
Inclusions(t) ==
    IF t = Cpp THEN {[file |-> Cpp, stack |-> <<>>], [file |-> Sys, stack |-> <<Cpp>>]}
    ELSE {[file |-> t, stack |-> <<>>]}

\* Files below /usr/ but not below /usr/home/.
SystemFiles == {Sys}

\* arg.contains(path) for a default argument: in this tree an argument
\* contains a file's path exactly when it is that path.
DefaultArgsName(dargs, path) == \E i \in 1..Len(dargs) : dargs[i] = path

NoInfo == [symbolLength |-> 0, kind |-> "", target |-> NullLoc, references |-> {}]

\* indexVisitor: the CursorInfo of every cursor with a location (mSymbols
\* before reference resolution) ...
VisitedSymbols(t) ==
    IF t = Cpp
    THEN (Loc(Cpp, 10) :> [symbolLength |-> 1, kind |-> "DeclRefExpr",
                           target |-> Loc(Sys, 5), references |-> {}])
      @@ (Loc(Sys, 5) :> [NoInfo EXCEPT !.symbolLength = 1, !.kind = "FunctionDecl"])
      @@ (Loc(Cpp, 20) :> [NoInfo EXCEPT !.symbolLength = 4, !.kind = "FunctionDecl"])
    ELSE (Loc(t, 8) :> [symbolLength |-> 1, kind |-> "DeclRefExpr",
                        target |-> Loc(t, 3), references |-> {}])
      @@ (Loc(t, 3) :> [NoInfo EXCEPT !.symbolLength = 1, !.kind = "VarDecl"])

\* ... mReferences, in iteration order: <<location, referenced location,
\* isMemberFunction>> ...
VisitedReferences(t) ==
    IF t = Cpp THEN << <<Loc(Cpp, 10), Loc(Sys, 5), FALSE>> >>
    ELSE << <<Loc(t, 8), Loc(t, 3), FALSE>> >>

\* ... the names of addNamePermutations ...
VisitedNames(t) ==
    IF t = Cpp THEN ("f" :> {Loc(Sys, 5)}) @@ ("main" :> {Loc(Cpp, 20)})
    ELSE ("v" :> {Loc(t, 3)})

\* ... and mPaths, the paths createLocation saw.
VisitedPaths(t) == {l[1] : l \in DOMAIN VisitedSymbols(t)}

\* Path::fileName
FileName(path) ==
    CASE path = PchH -> "p.h"
      [] path = Cpp -> "c.cpp"
      [] path = Sys -> "s.h"
      [] OTHER -> path

\* Path::parentDir
ParentDir(path) == IF path = Sys THEN "/usr/" ELSE Dir

\* Rdm::CursorInfo::unite: the references are united, an empty target is
\* filled, kind and symbolLength come from the side that has a symbolLength
\* first; changed tells whether any field changed.
unite(current, added) ==
    LET info == [symbolLength |-> IF current.symbolLength = 0
                                  THEN added.symbolLength ELSE current.symbolLength,
                 kind |-> IF current.symbolLength = 0 THEN added.kind
                          ELSE current.kind,
                 target |-> IF current.target = NullLoc THEN added.target
                            ELSE current.target,
                 references |-> current.references \cup added.references]
    IN  [info |-> info, changed |-> info /= current]

\* ------------------------------------------------------------ the parse job
\* inclusionVisitor over every inclusion: mDependencies.
InclusionDependencies(t, dargs) ==
    LET incl == {r \in Inclusions(t) :
                    r.file \notin SystemFiles /\ ~DefaultArgsName(dargs, r.file)}
    IN  [f \in {r.file : r \in incl} |->
            UNION {IF r.stack = <<>> THEN {r.file}
                   ELSE {r.stack[i] : i \in 1..Len(r.stack)} :
                       r \in {q \in incl : q.file = f}}]

\* inclusionVisitor: mPchDependencies of a job with mIsPch.
InclusionPchDependencies(t, dargs, mIsPch) ==
    IF mIsPch THEN DOMAIN InclusionDependencies(t, dargs) ELSE {}

\* mDependencies[dep].insert(mIn) for every dep of every pch header.
RECURSIVE AttributePch(_, _, _, _, _)
AttributePch(deps, hs, i, pchd, mIn) ==
    IF i > Len(hs) THEN deps
    ELSE LET ds == Value(pchd, hs[i])
         IN  AttributePch([x \in (DOMAIN deps) \cup ds |->
                              IF x \in ds THEN Value(deps, x) \cup {mIn}
                              ELSE deps[x]],
                          hs, i + 1, pchd, mIn)

\* Reference resolution over mReferences (lines 758-776).
RECURSIVE ResolveFrom(_, _, _)
ResolveFrom(syms, refs, i) ==
    IF i > Len(refs) THEN syms
    ELSE LET key == refs[i][1]
             tgt == refs[i][2]
             member == refs[i][3]
         IN  IF tgt \notin DOMAIN syms THEN ResolveFrom(syms, refs, i + 1)
             ELSE IF member
             THEN LET other == IF key \in DOMAIN syms THEN syms[key] ELSE NoInfo
                      united == syms[tgt].references \cup other.references
                      s1 == PutAt(syms, key, [other EXCEPT !.references = united])
                      ci == IF key = tgt THEN s1[tgt] ELSE syms[tgt]
                      s2 == PutAt(s1, tgt,
                                  [ci EXCEPT !.references = united,
                                             !.target = IF other.target = NullLoc
                                                        THEN key ELSE @])
                  IN  ResolveFrom(s2, refs, i + 1)
             ELSE ResolveFrom([syms EXCEPT ![tgt].references = @ \cup {key}],
                              refs, i + 1)

\* The erase loop (lines 778-791): entries with neither target nor references go.
Prune(syms) ==
    [l \in {k \in DOMAIN syms :
               ~(syms[k].target = NullLoc /\ syms[k].references = {})} |-> syms[l]]

\* mSymbols as handed to addSymbols.
JobSymbols(t) == Prune(ResolveFrom(VisitedSymbols(t), VisitedReferences(t), 1))

\* mSymbolNames as handed to addSymbolNames: the visited names and the file
\* markers of every path of mPaths (lines 792-796).
JobSymbolNames(t) ==
    LET paths == VisitedPaths(t)
        marks == [n \in paths \cup {FileName(q) : q \in paths} |->
                     {Loc(q, 1) : q \in {r \in paths : r = n \/ FileName(r) = n}}]
    IN  UniteAll(VisitedNames(t), marks)


\* ------------------------------------------------------------------- state
VARIABLES
    \* IndexerImpl
    indexing,        \* QSet<QByteArray> indexing
    pchHeaderError,  \* QSet<QByteArray> pchHeaderError
    jobs,            \* QHash<int, IndexerJob*> jobs: id -> [mIn, mArgs]
    lastJobId,
    jobCounter,
    timerRunning,
    defaultArgs,
    dependencies,    \* DependencyHash dependencies
    pchDeps,         \* DependencyHash pchDeps
    watched,         \* WatchedHash watched: directory -> set of <<name, mtime>>
    \* the threads
    run,             \* the IndexerJob objects of the pool: id -> run() state
    dirtyJobs,       \* the DirtyJob objects of the pool
    dirtyCount,      \* the DirtyJob objects created so far
    poolQueue,       \* runnables handed to QThreadPool::start, not yet started
    eventQueue,      \* the event queue of the Indexer's thread
    \* IndexerSyncer
    mSymbols, mSymbolNames, mDependencies, mInformations,
    syncer,          \* run() of the flusher thread: its position and locals
    \* the four databases
    dbSymbol, dbSymbolName, dbDependency, dbFileInformation,
    \* the file system: path -> lastModified, 0 when the file does not exist
    fs,
    \* observations
    lastCall,        \* the last call of index: its input and its result
    returned,        \* the ids index has returned
    indexingDone,    \* id -> number of indexingDone(id) signals emitted
    assertFailed,    \* a Q_ASSERT of the file has failed
    history,         \* per translation unit: what index admitted and what ran
    lastDir,         \* the path of the last call of onDirectoryChanged
    dirtyCalls,      \* the calls of index the DirtyJobs have made
    notified         \* onJobDone has called syncer->notify(), and no job has
                     \* been admitted since its last call

coordVars == <<indexing, pchHeaderError, jobs, lastJobId, jobCounter, timerRunning,
               defaultArgs>>
regVars == <<dependencies, pchDeps, watched>>
bufVars == <<mSymbols, mSymbolNames, mDependencies, mInformations>>
dbVars == <<dbSymbol, dbSymbolName, dbDependency, dbFileInformation>>
obsVars == <<lastCall, returned, indexingDone, assertFailed, history, lastDir,
             dirtyCalls, notified>>
vars == <<coordVars, regVars, run, dirtyJobs, dirtyCount, poolQueue, eventQueue, bufVars,
          syncer, dbVars, fs, obsVars>>

NoLocals == [symbolNames |-> EmptyHash, symbols |-> EmptyHash,
             dependencies |-> EmptyHash, informations |-> EmptyHash]

\* The state after Indexer::Indexer, apart from the project storage.
InitIndexer ==
    /\ indexing = {}
    /\ pchHeaderError = {}
    /\ jobs = EmptyHash
    /\ lastJobId = 0
    /\ jobCounter = 0
    /\ timerRunning = FALSE
    /\ defaultArgs = <<>>
    /\ dependencies = EmptyHash
    /\ pchDeps = EmptyHash
    /\ watched = EmptyHash
    /\ run = EmptyHash
    /\ dirtyJobs = EmptyHash
    /\ dirtyCount = 0
    /\ poolQueue = <<>>
    /\ eventQueue = <<>>
    /\ mSymbols = EmptyHash
    /\ mSymbolNames = EmptyHash
    /\ mDependencies = EmptyHash
    /\ mInformations = EmptyHash
    /\ syncer = [pc |-> "wait"] @@ NoLocals
    /\ fs = [f \in Files |-> 1]
    /\ lastCall = [input |-> "", ret |-> -1, tick |-> 0]
    /\ returned = {}
    /\ indexingDone = EmptyHash
    /\ assertFailed = FALSE
    /\ history = EmptyHash
    /\ lastDir = ""
    /\ dirtyCalls = {}
    /\ notified = FALSE

\* An empty project storage.
EmptyStorage ==
    /\ dbSymbol = EmptyHash
    /\ dbSymbolName = EmptyHash
    /\ dbDependency = EmptyHash
    /\ dbFileInformation = EmptyHash

\* The project storage an earlier run left after indexing PchH with PchArgs
\* and then Cpp with ConsArgs.
EarlierStorage ==
    /\ dbSymbol = JobSymbols(PchH) @@ JobSymbols(Cpp)
    /\ dbSymbolName = UniteAll(JobSymbolNames(PchH), JobSymbolNames(Cpp))
    /\ dbDependency = (PchH :> {PchH, Cpp}) @@ (Cpp :> {Cpp})
    /\ dbFileInformation = (PchH :> PchArgs) @@ (Cpp :> ConsArgs)

Init == InitIndexer /\ EmptyStorage

InitEarlier == InitIndexer /\ EarlierStorage

\* The Indexer, on the storage of an earlier run, after index(PchH, PchArgs)
\* and index(Cpp, ConsArgs) have been admitted (ids 0 and 1) and their jobs
\* have parsed, saved the PCH, handed their data to the IndexerSyncer and
\* been retired by onJobDone; the IndexerSyncer has not run yet.
InitIndexed ==
    /\ EarlierStorage
    /\ indexing = {}
    /\ pchHeaderError = {}
    /\ jobs = EmptyHash
    /\ lastJobId = 2
    /\ jobCounter = 2
    /\ timerRunning = FALSE
    /\ defaultArgs = <<>>
    /\ dependencies = (PchH :> {PchH, Cpp}) @@ (Cpp :> {Cpp})
    /\ pchDeps = (PchH :> {PchH})
    /\ watched = (Dir :> {<<FileName(PchH), 1>>, <<FileName(Cpp), 1>>})
    /\ run = EmptyHash
    /\ dirtyJobs = EmptyHash
    /\ dirtyCount = 0
    /\ poolQueue = <<>>
    /\ eventQueue = <<>>
    /\ mSymbols = JobSymbols(PchH) @@ JobSymbols(Cpp)
    /\ mSymbolNames = UniteAll(JobSymbolNames(PchH), JobSymbolNames(Cpp))
    /\ mDependencies = (PchH :> {PchH, Cpp}) @@ (Cpp :> {Cpp})
    /\ mInformations = (PchH :> PchArgs) @@ (Cpp :> ConsArgs)
    /\ syncer = [pc |-> "wait"] @@ NoLocals
    /\ fs = [f \in Files |-> 1]
    /\ lastCall = [input |-> Cpp, ret |-> 1, tick |-> 0]
    /\ returned = {0, 1}
    /\ indexingDone = (0 :> 1) @@ (1 :> 1)
    /\ assertFailed = FALSE
    /\ history = (PchH :> [admitted |-> PchArgs, last |-> "ok", parsed |-> 1,
                           okArgs |-> PchArgs, pch |-> "ok"])
                 @@ (Cpp :> [admitted |-> ConsArgs, last |-> "ok", parsed |-> 1,
                             okArgs |-> ConsArgs, pch |-> "none"])
    /\ lastDir = ""
    /\ dirtyCalls = {}
    /\ notified = TRUE

\* The Indexer on an empty storage after k calls of index(Cpp, PlainArgs),
\* one after the other, each admitted, its job run with a parser that
\* returned no unit, and retired by onJobDone.
InitAfterFailed(k) ==
    /\ EmptyStorage
    /\ indexing = {}
    /\ pchHeaderError = {}
    /\ jobs = EmptyHash
    /\ lastJobId = k
    /\ jobCounter = k
    /\ timerRunning = FALSE
    /\ defaultArgs = <<>>
    /\ dependencies = EmptyHash
    /\ pchDeps = EmptyHash
    /\ watched = EmptyHash
    /\ run = EmptyHash
    /\ dirtyJobs = EmptyHash
    /\ dirtyCount = 0
    /\ poolQueue = <<>>
    /\ eventQueue = <<>>
    /\ mSymbols = EmptyHash
    /\ mSymbolNames = EmptyHash
    /\ mDependencies = EmptyHash
    /\ mInformations = EmptyHash
    /\ syncer = [pc |-> "wait"] @@ NoLocals
    /\ fs = [f \in Files |-> 1]
    /\ lastCall = [input |-> Cpp, ret |-> k - 1, tick |-> k % 2]
    /\ returned = 0..(k - 1)
    /\ indexingDone = [i \in 0..(k - 1) |-> 1]
    /\ assertFailed = FALSE
    /\ history = (Cpp :> [admitted |-> PlainArgs, last |-> "failed", parsed |-> 0,
                          okArgs |-> <<>>, pch |-> "none"])
    /\ lastDir = ""
    /\ dirtyCalls = {}
    /\ notified = TRUE

\* One job short of SYNCINTERVAL completed jobs.
InitBatch == InitAfterFailed(SYNCINTERVAL - 1)

\* ------------------------------------------------------------ Indexer::index
\* An allocation that takes the lowest id that is not a key of jobs.
AllocateLowest(last, js) ==
    CHOOSE i \in 0..Cardinality(DOMAIN js) :
        /\ i \notin DOMAIN js
        /\ \A k \in 0..(i - 1) : k \in DOMAIN js

\* do { id = lastJobId++; } while (jobs.contains(id));
RECURSIVE AllocateId(_, _)
AllocateId(last, js) == IF last \in DOMAIN js THEN AllocateId(last + 1, js) ELSE last

\* Line 864: return -1
indexRefused(input, arguments) ==
    /\ lastCall' = [input |-> input, ret |-> -1, tick |-> 1 - lastCall.tick]
    /\ UNCHANGED <<coordVars, run, poolQueue, returned, history,
                   lastDir, notified>>

\* Lines 866-884: the job is created, registered and handed to the pool.
indexAdmitted(input, arguments) ==
    LET id == AllocateId(lastJobId, jobs)
    IN  /\ lastJobId' = id + 1
        /\ indexing' = indexing \cup {input}
        /\ jobs' = PutAt(jobs, id, [mIn |-> input, mArgs |-> arguments])
        /\ run' = PutAt(run, id, [pc |-> "queued", mIn |-> input,
                                  mArgs |-> arguments, args |-> <<>>,
                                  pchHeaders |-> <<>>, mIsPch |-> FALSE,
                                  unit |-> "none", pchError |-> FALSE])
        /\ timerRunning' = TRUE
        /\ poolQueue' = Append(poolQueue, [kind |-> "job", id |-> id])
        /\ lastCall' = [input |-> input, ret |-> id, tick |-> 1 - lastCall.tick]
        /\ returned' = returned \cup {id}
        /\ history' = PutAt(history, input,
                            [admitted |-> arguments, last |-> "pending",
                             parsed |-> IF input \in DOMAIN history
                                        THEN history[input].parsed ELSE 0,
                             okArgs |-> IF input \in DOMAIN history
                                        THEN history[input].okArgs ELSE <<>>,
                             pch |-> IF input \in DOMAIN history
                                     THEN history[input].pch ELSE "none"])
        /\ notified' = FALSE
        /\ UNCHANGED <<pchHeaderError, jobCounter, defaultArgs>>

\* index without the test of line 863.
indexUnchecked(input, arguments) == indexAdmitted(input, arguments)

\* Indexer::index(input, arguments), under implMutex; lastCall.ret is what
\* it returns.
index(input, arguments) ==
    IF input \in indexing THEN indexRefused(input, arguments)
    ELSE indexAdmitted(input, arguments)

\* A client of the Indexer calls index; index admits jobs while
\* lastJobId < max.
ClientIndexBelow(max) ==
    /\ lastJobId < max
    /\ \E t \in TUs : \E a \in ArgChoices(t) : index(t, a)
    /\ UNCHANGED <<regVars, dirtyJobs, dirtyCount, eventQueue, bufVars, syncer, dbVars, fs,
                   indexingDone, assertFailed,
                   lastDir, dirtyCalls>>

ClientIndex == ClientIndexBelow(MaxJobs)


\* ------------------------------------------------------------- QThreadPool
\* The threads of the pool that are running a runnable.
Active ==
    Cardinality({j \in DOMAIN run : run[j].pc /= "queued"})
    + Cardinality({d \in DOMAIN dirtyJobs : dirtyJobs[d].pc /= "queued"})

PoolHead(kind) ==
    /\ poolQueue /= <<>>
    /\ Head(poolQueue).kind = kind
    /\ Active < PoolSize

\* ------------------------------------------------------- IndexerJob::run
\* A pool thread starts run(): lines 665-667.
JobStart(j) ==
    /\ PoolHead("job")
    /\ Head(poolQueue).id = j
    /\ LET args == run[j].mArgs \o defaultArgs
           pchHeaders == extractPchFiles(args)
       IN  run' = [run EXCEPT ![j].args = args,
                              ![j].pchHeaders = pchHeaders,
                              ![j].pc = IF pchHeaders /= <<>> THEN "wait"
                                        ELSE "parsing"]
    /\ poolQueue' = Tail(poolQueue)
    /\ UNCHANGED <<coordVars, regVars, dirtyJobs, dirtyCount, eventQueue, bufVars, syncer,
                   dbVars, fs, obsVars>>

\* One pass of the do-while body under implMutex (lines 670-686); a job
\* that has to wait blocks in implCond.wait until wakeAll.
JobWait(j) ==
    /\ j \in DOMAIN run
    /\ run[j].pc = "wait"
    /\ LET pass == WaitPass(run[j].pchHeaders, run[j].args, pchHeaderError, indexing)
       IN  /\ run' = [run EXCEPT ![j].args = pass.args,
                                 ![j].pc = IF pass.wait THEN "blocked" ELSE "parsing"]
           /\ assertFailed' = (assertFailed \/ ~pass.ok)
    /\ UNCHANGED <<coordVars, regVars, dirtyJobs, dirtyCount, poolQueue, eventQueue, bufVars,
                   syncer, dbVars, fs, lastCall, returned, indexingDone, history,
                   lastDir, dirtyCalls, notified>>

\* Lines 735-737: the parser returned no unit.
JobParseFailed(j, mIsPch) ==
    /\ run' = [run EXCEPT ![j].mIsPch = mIsPch,
                          ![j].unit = "null",
                          ![j].pchError = mIsPch,
                          ![j].pc = IF mIsPch THEN "fin" ELSE "emit"]
    /\ history' = [history EXCEPT ![run[j].mIn].last = "failed",
                                  ![run[j].mIn].pch = IF mIsPch THEN "failed" ELSE @]

\* Lines 739-745: the inclusion visit, the dependencies of the pch headers
\* and the DependencyEvent.
JobPostDependencies(j) ==
    eventQueue' =
        Append(eventQueue,
               [type |-> "dependency",
                deps |-> AttributePch(InclusionDependencies(run[j].mIn, defaultArgs),
                                      run[j].pchHeaders, 1, pchDeps, run[j].mIn)])

JobParseSucceeded(j, mIsPch) ==
    /\ run' = [run EXCEPT ![j].mIsPch = mIsPch, ![j].unit = "ok", ![j].pc = "visit"]
    /\ JobPostDependencies(j)
    /\ history' = [history EXCEPT ![run[j].mIn].last = "ok",
                                  ![run[j].mIn].parsed = @ + 1,
                                  ![run[j].mIn].okArgs = run[j].mArgs]

\* JobParse with the DependencyEvent posted before the unit is tested.
JobParsePostsFirst(j) ==
    /\ j \in DOMAIN run
    /\ run[j].pc = "parsing"
    /\ \E unit \in BOOLEAN :
          IF ~unit
          THEN JobParseFailed(j, Rewrite(run[j].args).mIsPch) /\ JobPostDependencies(j)
          ELSE JobParseSucceeded(j, Rewrite(run[j].args).mIsPch)
    /\ UNCHANGED <<coordVars, regVars, dirtyJobs, dirtyCount, poolQueue, bufVars,
                   syncer, dbVars, fs, lastCall, returned, indexingDone,
                   assertFailed,
                   lastDir, dirtyCalls, notified>>

\* Lines 688-745: the argument loop, clang_parseTranslationUnit (which may
\* return no unit), the inclusion visit and the DependencyEvent.
JobParse(j) ==
    /\ j \in DOMAIN run
    /\ run[j].pc = "parsing"
    /\ \E unit \in BOOLEAN :
          IF ~unit
          THEN JobParseFailed(j, Rewrite(run[j].args).mIsPch) /\ UNCHANGED eventQueue
          ELSE JobParseSucceeded(j, Rewrite(run[j].args).mIsPch)
    /\ UNCHANGED <<coordVars, regVars, dirtyJobs, dirtyCount, poolQueue, bufVars,
                   syncer, dbVars, fs, lastCall, returned, indexingDone,
                   assertFailed,
                   lastDir, dirtyCalls, notified>>

\* IndexerSyncer::addSymbols
addSymbols(symbols) ==
    mSymbols' = IF mSymbols = EmptyHash THEN symbols
                ELSE [l \in (DOMAIN mSymbols) \cup (DOMAIN symbols) |->
                        IF l \notin DOMAIN symbols THEN mSymbols[l]
                        ELSE IF l \notin DOMAIN mSymbols
                             THEN unite(NoInfo, symbols[l]).info
                             ELSE unite(mSymbols[l], symbols[l]).info]

\* addSymbolNames assigning the added hash whatever the buffer holds.
addSymbolNamesAssigns(names) == mSymbolNames' = names

\* IndexerSyncer::addSymbolNames
addSymbolNames(names) ==
    mSymbolNames' = IF mSymbolNames = EmptyHash THEN names
                    ELSE UniteAll(mSymbolNames, names)

\* IndexerSyncer::addDependencies
addDependencies(deps) ==
    mDependencies' = IF mDependencies = EmptyHash THEN deps
                     ELSE UniteAll(mDependencies, deps)

\* IndexerSyncer::addFileInformation
addFileInformation(input, args) ==
    mInformations' = PutAt(mInformations, input, args)

\* Lines 747-797: the AST visit, the PCH save (which may fail), reference
\* resolution, pruning, and addSymbols.
JobVisit(j) ==
    /\ j \in DOMAIN run
    /\ run[j].pc = "visit"
    /\ \E saved \in BOOLEAN :
          /\ run[j].mIsPch \/ saved
          /\ run' = [run EXCEPT ![j].pchError = ~saved, ![j].pc = "addSymbolNames"]
          /\ history' = [history EXCEPT
                            ![run[j].mIn].pch = IF ~run[j].mIsPch THEN @
                                                ELSE IF saved THEN "ok" ELSE "failed"]
    /\ addSymbols(JobSymbols(run[j].mIn))
    /\ UNCHANGED <<coordVars, regVars, dirtyJobs, dirtyCount, poolQueue, eventQueue,
                   mSymbolNames, mDependencies, mInformations, syncer, dbVars,
                   fs, lastCall, returned, indexingDone, assertFailed, lastDir,
                   dirtyCalls, notified>>

\* Line 798
JobAddSymbolNames(j) ==
    /\ j \in DOMAIN run
    /\ run[j].pc = "addSymbolNames"
    /\ addSymbolNames(JobSymbolNames(run[j].mIn))
    /\ run' = [run EXCEPT ![j].pc = "addFileInformation"]
    /\ UNCHANGED <<coordVars, regVars, dirtyJobs, dirtyCount, poolQueue, eventQueue,
                   mSymbols, mDependencies, mInformations, syncer, dbVars,
                   fs, obsVars>>

\* Line 799
JobAddFileInformation(j) ==
    /\ j \in DOMAIN run
    /\ run[j].pc = "addFileInformation"
    /\ addFileInformation(run[j].mIn, run[j].mArgs)
    /\ run' = [run EXCEPT ![j].pc = IF run[j].mIsPch THEN "setPchDependencies"
                                    ELSE "emit"]
    /\ UNCHANGED <<coordVars, regVars, dirtyJobs, dirtyCount, poolQueue, eventQueue,
                   mSymbols, mSymbolNames, mDependencies, syncer, dbVars,
                   fs, obsVars>>

\* IndexerImpl::setPchDependencies
setPchDependencies(pchHeader, deps) ==
    pchDeps' = IF deps = {}
               THEN [h \in (DOMAIN pchDeps) \ {pchHeader} |-> pchDeps[h]]
               ELSE PutAt(pchDeps, pchHeader, deps)

\* Lines 800-801
JobSetPchDependencies(j) ==
    /\ j \in DOMAIN run
    /\ run[j].pc = "setPchDependencies"
    /\ setPchDependencies(run[j].mIn,
                          InclusionPchDependencies(run[j].mIn, defaultArgs, TRUE))
    /\ run' = [run EXCEPT ![j].pc = "fin"]
    /\ UNCHANGED <<coordVars, dependencies, watched, dirtyJobs, dirtyCount, poolQueue,
                   eventQueue, bufVars, syncer, dbVars, fs, obsVars>>

\* Lines 805-812 without the else branch: the error of a header is
\* recorded and never cleared.
JobPchErrorKeeps(j) ==
    /\ j \in DOMAIN run
    /\ run[j].pc = "fin"
    /\ pchHeaderError' = IF run[j].pchError
                         THEN pchHeaderError \cup {run[j].mIn}
                         ELSE pchHeaderError
    /\ run' = [run EXCEPT ![j].pc = "emit"]
    /\ UNCHANGED <<indexing, jobs, lastJobId, jobCounter, timerRunning,
                   defaultArgs, regVars, dirtyJobs, dirtyCount, poolQueue, eventQueue,
                   bufVars, syncer, dbVars, fs, obsVars>>

\* Lines 805-812: a job with mIsPch records or clears its error, under
\* implMutex.
JobPchError(j) ==
    /\ j \in DOMAIN run
    /\ run[j].pc = "fin"
    /\ pchHeaderError' = IF run[j].pchError
                         THEN pchHeaderError \cup {run[j].mIn}
                         ELSE pchHeaderError \ {run[j].mIn}
    /\ run' = [run EXCEPT ![j].pc = "emit"]
    /\ UNCHANGED <<indexing, jobs, lastJobId, jobCounter, timerRunning,
                   defaultArgs, regVars, dirtyJobs, dirtyCount, poolQueue, eventQueue,
                   bufVars, syncer, dbVars, fs, obsVars>>

\* JobEmitDone with the done signal delivered ahead of the events posted
\* before it.
JobEmitDoneJumps(j) ==
    /\ j \in DOMAIN run
    /\ run[j].pc = "emit"
    /\ eventQueue' = <<[type |-> "done", id |-> j, input |-> run[j].mIn]>>
                        \o eventQueue
    /\ run' = [k \in (DOMAIN run) \ {j} |-> run[k]]
    /\ UNCHANGED <<coordVars, regVars, dirtyJobs, dirtyCount, poolQueue, bufVars, syncer,
                   dbVars, fs, obsVars>>

\* Line 813: emit done(mId, mIn) over the queued connection; run() returns
\* and the pool deletes the job object.
JobEmitDone(j) ==
    /\ j \in DOMAIN run
    /\ run[j].pc = "emit"
    /\ eventQueue' = Append(eventQueue,
                            [type |-> "done", id |-> j, input |-> run[j].mIn])
    /\ run' = [k \in (DOMAIN run) \ {j} |-> run[k]]
    /\ UNCHANGED <<coordVars, regVars, dirtyJobs, dirtyCount, poolQueue, bufVars, syncer,
                   dbVars, fs, obsVars>>


\* ------------------------------------------- the Indexer's thread: events
\* commitDependencies forwarding the whole delta.
NewDependenciesAll(deps) == deps

\* The additional edges of commitDependencies (lines 277-288).
NewDependencies(deps) ==
    IF dependencies = EmptyHash THEN deps
    ELSE [k \in DOMAIN deps |-> deps[k] \ Value(dependencies, k)]

\* IndexerImpl::commitDependencies
commitDependencies(deps) ==
    LET newDependencies == NewDependencies(deps)
        dirs == {ParentDir(q) : q \in DOMAIN newDependencies}
    IN  /\ dependencies' = IF dependencies = EmptyHash THEN deps
                           ELSE UniteAll(dependencies, deps)
        /\ addDependencies(newDependencies)
        /\ watched' = [d \in (DOMAIN watched) \cup dirs |->
                          Value(watched, d)
                          \cup {<<FileName(q), fs[q]>> :
                                  q \in {r \in DOMAIN newDependencies :
                                            ParentDir(r) = d}}]

\* Indexer::customEvent: the event queue delivers a DependencyEvent.
CustomEvent ==
    /\ eventQueue /= <<>>
    /\ Head(eventQueue).type = "dependency"
    /\ commitDependencies(Head(eventQueue).deps)
    /\ eventQueue' = Tail(eventQueue)
    /\ UNCHANGED <<coordVars, pchDeps, run, dirtyJobs, dirtyCount, poolQueue, mSymbols,
                   mSymbolNames, mInformations, syncer, dbVars, fs, obsVars>>

\* Lines 992-994: syncer->notify() is called inside
\* if (jobs.isEmpty() || jobCounter == SYNCINTERVAL) { if (jobs.isEmpty()) {
onJobDoneNotifies(left, counter) ==
    (left = EmptyHash \/ counter = SYNCINTERVAL) /\ left = EmptyHash

\* onJobDone without the assignment of line 997.
onJobDoneKeepsTimer(id, left) ==
    /\ jobCounter' = jobCounter + 1
    /\ notified' = onJobDoneNotifies(left, jobCounter + 1)
    /\ timerRunning' = timerRunning
    /\ assertFailed' = (assertFailed \/ (left = EmptyHash /\ ~timerRunning))
    /\ indexingDone' = PutAt(indexingDone, id,
                             IF id \in DOMAIN indexingDone
                             THEN indexingDone[id] + 1 ELSE 1)

\* onJobDone from line 990 on, for the jobs map that is left.
onJobDoneCount(id, left) ==
    /\ jobCounter' = jobCounter + 1
    /\ notified' = onJobDoneNotifies(left, jobCounter + 1)
    /\ timerRunning' = IF left = EmptyHash THEN FALSE ELSE timerRunning
    /\ assertFailed' = (assertFailed \/ (left = EmptyHash /\ ~timerRunning))
    /\ indexingDone' = PutAt(indexingDone, id,
                             IF id \in DOMAIN indexingDone
                             THEN indexingDone[id] + 1 ELSE 1)

\* Lines 987-988: indexing.remove(input), and wakeAll when it was there.
onJobDoneWake(input) ==
    /\ indexing' = indexing \ {input}
    /\ run' = IF input \in indexing
              THEN [k \in DOMAIN run |->
                       IF run[k].pc = "blocked"
                       THEN [run[k] EXCEPT !.pc = "wait"] ELSE run[k]]
              ELSE run

\* onJobDone without jobs.remove(id).
onJobDoneKeepsJob(id, input) ==
    /\ jobs' = jobs
    /\ onJobDoneWake(input)
    /\ onJobDoneCount(id, jobs)

\* onJobDone without indexing.remove(input).
onJobDoneKeepsIndexing(id, input) ==
    /\ jobs' = [k \in (DOMAIN jobs) \ {id} |-> jobs[k]]
    /\ UNCHANGED <<indexing, run>>
    /\ onJobDoneCount(id, [k \in (DOMAIN jobs) \ {id} |-> jobs[k]])

\* Indexer::onJobDone(id, input), under implMutex
onJobDone(id, input) ==
    /\ jobs' = [k \in (DOMAIN jobs) \ {id} |-> jobs[k]]
    /\ onJobDoneWake(input)
    /\ onJobDoneCount(id, [k \in (DOMAIN jobs) \ {id} |-> jobs[k]])

\* The event queue delivers a done signal to the onJobDone slot.
JobDone ==
    /\ eventQueue /= <<>>
    /\ Head(eventQueue).type = "done"
    /\ onJobDone(Head(eventQueue).id, Head(eventQueue).input)
    /\ eventQueue' = Tail(eventQueue)
    /\ UNCHANGED <<pchHeaderError, lastJobId, defaultArgs, regVars, dirtyJobs, dirtyCount,
                   poolQueue, bufVars, syncer, dbVars, fs, lastCall, returned, history,
                   lastDir, dirtyCalls>>

\* ------------------------------------------------------ IndexerSyncer::run
\* Lines 132-146: the wait loop ends when mSymbols or mSymbolNames holds
\* data (a wake-up by notify or by the timeout re-tests the condition), then
\* the four buffers are swapped out.
SyncerSwap ==
    /\ syncer.pc = "wait"
    /\ ~(mSymbols = EmptyHash /\ mSymbolNames = EmptyHash)
    /\ syncer' = [pc |-> "symbolNames", symbolNames |-> mSymbolNames,
                  symbols |-> mSymbols, dependencies |-> mDependencies,
                  informations |-> mInformations]
    /\ mSymbols' = EmptyHash
    /\ mSymbolNames' = EmptyHash
    /\ mDependencies' = EmptyHash
    /\ mInformations' = EmptyHash
    /\ UNCHANGED <<coordVars, regVars, run, dirtyJobs, dirtyCount, poolQueue, eventQueue,
                   dbVars, fs, obsVars>>

\* The keys a batch of set-valued entries writes: those whose set grows.
GrownKeys(db, added) ==
    {k \in DOMAIN added : Cardinality(Value(db, k) \cup added[k])
                             /= Cardinality(Value(db, k))}

\* Lines 147-172
SyncerSymbolNames ==
    /\ syncer.pc = "symbolNames"
    /\ LET added == syncer.symbolNames
           put == GrownKeys(dbSymbolName, added)
       IN  dbSymbolName' = [k \in (DOMAIN dbSymbolName) \cup put |->
                               IF k \in put THEN Value(dbSymbolName, k) \cup added[k]
                               ELSE dbSymbolName[k]]
    /\ syncer' = [syncer EXCEPT !.pc = "symbols", !.symbolNames = EmptyHash]
    /\ UNCHANGED <<coordVars, regVars, run, dirtyJobs, dirtyCount, poolQueue, eventQueue,
                   bufVars, dbSymbol, dbDependency, dbFileInformation, fs, obsVars>>

\* Rdm::readValue<CursorInfo>: a key that is not stored reads as an empty value.
ReadInfo(db, k) == IF k \in DOMAIN db THEN db[k] ELSE NoInfo

\* Lines 173-196
SyncerSymbols ==
    /\ syncer.pc = "symbols"
    /\ LET added == syncer.symbols
           put == {k \in DOMAIN added : unite(ReadInfo(dbSymbol, k), added[k]).changed}
       IN  dbSymbol' = [k \in (DOMAIN dbSymbol) \cup put |->
                           IF k \in put THEN unite(ReadInfo(dbSymbol, k), added[k]).info
                           ELSE dbSymbol[k]]
    /\ syncer' = [syncer EXCEPT !.pc = "dependencies", !.symbols = EmptyHash]
    /\ UNCHANGED <<coordVars, regVars, run, dirtyJobs, dirtyCount, poolQueue, eventQueue,
                   bufVars, dbSymbolName, dbDependency, dbFileInformation, fs,
                   obsVars>>

\* SyncerDependencies putting the added set in place of the united one,
\* for every key of the delta.
SyncerDependenciesPutsAdded ==
    /\ syncer.pc = "dependencies"
    /\ dbDependency' = [k \in (DOMAIN dbDependency) \cup (DOMAIN syncer.dependencies) |->
                           IF k \in DOMAIN syncer.dependencies
                           THEN syncer.dependencies[k] ELSE dbDependency[k]]
    /\ syncer' = [syncer EXCEPT !.pc = "informations", !.dependencies = EmptyHash]
    /\ UNCHANGED <<coordVars, regVars, run, dirtyJobs, dirtyCount, poolQueue, eventQueue,
                   bufVars, dbSymbol, dbSymbolName, dbFileInformation, fs, obsVars>>

\* Lines 197-221
SyncerDependencies ==
    /\ syncer.pc = "dependencies"
    /\ LET added == syncer.dependencies
           put == {k \in DOMAIN added :
                      Cardinality(Value(dbDependency, k) \cup added[k])
                         > Cardinality(Value(dbDependency, k))}
       IN  dbDependency' = [k \in (DOMAIN dbDependency) \cup put |->
                               IF k \in put THEN Value(dbDependency, k) \cup added[k]
                               ELSE dbDependency[k]]
    /\ syncer' = [syncer EXCEPT !.pc = "informations", !.dependencies = EmptyHash]
    /\ UNCHANGED <<coordVars, regVars, run, dirtyJobs, dirtyCount, poolQueue, eventQueue,
                   bufVars, dbSymbol, dbSymbolName, dbFileInformation, fs, obsVars>>

\* SyncerInformations writing only the units the table does not hold yet.
SyncerInformationsKeepsOld ==
    /\ syncer.pc = "informations"
    /\ dbFileInformation' =
          [k \in (DOMAIN dbFileInformation) \cup (DOMAIN syncer.informations) |->
              IF k \in DOMAIN dbFileInformation THEN dbFileInformation[k]
              ELSE syncer.informations[k]]
    /\ syncer' = [syncer EXCEPT !.pc = "wait", !.informations = EmptyHash]
    /\ UNCHANGED <<coordVars, regVars, run, dirtyJobs, dirtyCount, poolQueue, eventQueue,
                   bufVars, dbSymbol, dbSymbolName, dbDependency, fs, obsVars>>

\* Lines 222-237, and back to the top of the loop
SyncerInformations ==
    /\ syncer.pc = "informations"
    /\ dbFileInformation' =
          [k \in (DOMAIN dbFileInformation) \cup (DOMAIN syncer.informations) |->
              IF k \in DOMAIN syncer.informations THEN syncer.informations[k]
              ELSE dbFileInformation[k]]
    /\ syncer' = [syncer EXCEPT !.pc = "wait", !.informations = EmptyHash]
    /\ UNCHANGED <<coordVars, regVars, run, dirtyJobs, dirtyCount, poolQueue, eventQueue,
                   bufVars, dbSymbol, dbSymbolName, dbDependency, fs, obsVars>>

\* db.open fails for the table the cycle has reached (lines 149-150,
\* 175-176, 199-200, 233-234; a table is opened only when its swapped-out
\* delta holds something): run() returns, its locals are destroyed and the
\* thread ends.
SyncerOpenFails ==
    /\ \/ syncer.pc = "symbolNames" /\ syncer.symbolNames /= EmptyHash
       \/ syncer.pc = "symbols" /\ syncer.symbols /= EmptyHash
       \/ syncer.pc = "dependencies" /\ syncer.dependencies /= EmptyHash
       \/ syncer.pc = "informations" /\ syncer.informations /= EmptyHash
    /\ syncer' = [pc |-> "returned"] @@ NoLocals
    /\ UNCHANGED <<coordVars, regVars, run, dirtyJobs, dirtyCount, poolQueue, eventQueue,
                   bufVars, dbVars, fs, obsVars>>

\* ----------------------------------------------------- the file system
MaxMtime == 2       \* a file is modified at most until its mtime is MaxMtime

\* A file that has an entry in the watched map is rewritten on disk.
TouchFile ==
    /\ \E f \in TUs :
          /\ \E w \in Value(watched, ParentDir(f)) : w[1] = FileName(f)
          /\ fs[f] /= 0
          /\ fs[f] < MaxMtime
          /\ fs' = [fs EXCEPT ![f] = @ + 1]
    /\ UNCHANGED <<coordVars, regVars, run, dirtyJobs, dirtyCount, poolQueue,
                   eventQueue, bufVars, syncer, dbVars, obsVars>>

\* A header that has an entry in the watched map, and that no parse job or
\* DirtyJob is about to index, is removed from disk.
RemoveFile ==
    /\ \E f \in Files :
          /\ \E w \in Value(watched, ParentDir(f)) : w[1] = FileName(f)
          /\ fs[f] /= 0
          /\ f \notin indexing
          /\ \A d \in DOMAIN dirtyJobs :
                f \notin (DOMAIN dirtyJobs[d].mToIndexPch) \cup (DOMAIN dirtyJobs[d].mToIndex)
          /\ fs' = [fs EXCEPT ![f] = 0]
    /\ UNCHANGED <<coordVars, regVars, run, dirtyJobs, dirtyCount, poolQueue,
                   eventQueue, bufVars, syncer, dbVars, obsVars>>

\* ------------------------------------------- Indexer::onDirectoryChanged
Dirs == {Dir, "/tmp/unused/"}

\* The stored pairs of directory p whose file is missing or modified.
ChangedPairs(p) ==
    {w \in Value(watched, p) : fs[p \o w[1]] = 0 \/ fs[p \o w[1]] /= w[2]}

\* The translation units that depend on the changed files that have a
\* dependency entry (lines 947-955).
DirtyUnits(p) ==
    UNION {dependencies[p \o w[1]] :
              w \in {x \in ChangedPairs(p) : p \o x[1] \in DOMAIN dependencies}}

\* The units to index again: those that exist and have stored arguments
\* (lines 956-966), split by isPch.
ToIndex(p, pch) ==
    LET units == {u \in DirtyUnits(p) :
                     /\ fs[u] /= 0
                     /\ u \in DOMAIN dbFileInformation
                     /\ isPch(dbFileInformation[u]) = pch}
    IN  [u \in units |-> dbFileInformation[u]]

\* onDirectoryChanged without the return of line 917: a directory without
\* an entry is treated as one whose set is empty.
onDirectoryChangedAlways(p) ==
    /\ watched' = watched
    /\ dirtyJobs' = PutAt(dirtyJobs, dirtyCount,
                          [pc |-> "queued", mDirty |-> {},
                           mToIndexPch |-> EmptyHash, mToIndex |-> EmptyHash])
    /\ poolQueue' = Append(poolQueue, [kind |-> "dirty", id |-> dirtyCount])
    /\ dirtyCount' = dirtyCount + 1

\* onDirectoryChanged(path) for a watched directory: under watchedMutex the
\* changed pairs leave the set and come back with the current mtime, and a
\* DirtyJob is started.  For a directory that is not watched the handler
\* returns at line 917 and changes nothing.
onDirectoryChanged(p) ==
    IF p \notin DOMAIN watched
    THEN UNCHANGED <<watched, dirtyJobs, poolQueue, dirtyCount>>
    ELSE LET changed == ChangedPairs(p)
             pending == {p \o w[1] : w \in changed}
         IN  /\ watched' = [watched EXCEPT ![p] =
                               (@ \ changed) \cup {<<FileName(f), fs[f]>> : f \in pending}]
             /\ dirtyJobs' = PutAt(dirtyJobs, dirtyCount,
                                   [pc |-> "queued",
                                    mDirty |-> pending \cup DirtyUnits(p),
                                    mToIndexPch |-> ToIndex(p, TRUE),
                                    mToIndex |-> ToIndex(p, FALSE)])
             /\ poolQueue' = Append(poolQueue, [kind |-> "dirty", id |-> dirtyCount])
             /\ dirtyCount' = dirtyCount + 1

\* QFileSystemWatcher signals directoryChanged.
DirectoryChanged ==
    /\ dirtyCount < MaxDirChanges
    /\ \E p \in Dirs :
          /\ onDirectoryChanged(p)
          /\ lastDir' = p
    /\ UNCHANGED <<coordVars, dependencies, pchDeps, run, eventQueue, bufVars,
                   syncer, dbVars, fs, lastCall, returned, indexingDone,
                   assertFailed, history, dirtyCalls, notified>>

\* ----------------------------------------------------------- DirtyJob::run
\* Rdm::CursorInfo::dirty: the references and the target whose path is
\* dirty are removed.
dirtyInfo(info, dirty) ==
    [info EXCEPT !.target = IF @[1] \in dirty THEN NullLoc ELSE @,
                 !.references = {r \in @ : r[1] \notin dirty}]

\* A pool thread starts DirtyJob::run.
DirtyStart(d) ==
    /\ PoolHead("dirty")
    /\ Head(poolQueue).id = d
    /\ dirtyJobs' = [dirtyJobs EXCEPT ![d].pc = "symbols"]
    /\ poolQueue' = Tail(poolQueue)
    /\ UNCHANGED <<coordVars, regVars, run, dirtyCount, eventQueue, bufVars,
                   syncer, dbVars, fs, obsVars>>

\* DirtyJob::dirty, the Symbol sweep (lines 1015-1056)
DirtySymbols(d) ==
    /\ d \in DOMAIN dirtyJobs
    /\ dirtyJobs[d].pc = "symbols"
    /\ LET mDirty == dirtyJobs[d].mDirty
           swept == [k \in DOMAIN dbSymbol |-> dirtyInfo(dbSymbol[k], mDirty)]
           kept == {k \in DOMAIN dbSymbol :
                      /\ k[1] \notin mDirty
                      /\ ~(swept[k] /= dbSymbol[k]
                           /\ swept[k].target = NullLoc
                           /\ swept[k].references = {})}
       IN  dbSymbol' = [k \in kept |-> swept[k]]
    /\ dirtyJobs' = [dirtyJobs EXCEPT ![d].pc = "symbolNames"]
    /\ UNCHANGED <<coordVars, regVars, run, dirtyCount, poolQueue, eventQueue,
                   bufVars, syncer, dbSymbolName, dbDependency,
                   dbFileInformation, fs, obsVars>>

\* DirtyJob::dirty, the SymbolName sweep (lines 1058-1098)
DirtySymbolNames(d) ==
    /\ d \in DOMAIN dirtyJobs
    /\ dirtyJobs[d].pc = "symbolNames"
    /\ LET mDirty == dirtyJobs[d].mDirty
           swept == [k \in DOMAIN dbSymbolName |->
                        {l \in dbSymbolName[k] : l[1] \notin mDirty}]
           kept == {k \in DOMAIN dbSymbolName :
                      ~(swept[k] /= dbSymbolName[k] /\ swept[k] = {})}
       IN  dbSymbolName' = [k \in kept |-> swept[k]]
    /\ dirtyJobs' = [dirtyJobs EXCEPT ![d].pc = "index"]
    /\ UNCHANGED <<coordVars, regVars, run, dirtyCount, poolQueue, eventQueue,
                   bufVars, syncer, dbSymbol, dbDependency, dbFileInformation,
                   fs, obsVars>>

\* What a call of index(u, ...) by DirtyJob d is remembered by: the unit
\* and its parse job after the call, which is the job the call created or,
\* when the call was refused, the job of u that was in the jobs map.
DirtyCall(d, u) ==
    [job |-> d, unit |-> u,
     id |-> IF u \in indexing
            THEN CHOOSE k \in DOMAIN jobs : jobs[k].mIn = u
            ELSE AllocateId(lastJobId, jobs),
     ret |-> IF u \in indexing THEN -1 ELSE AllocateId(lastJobId, jobs)]

\* DirtyJob::run with one loop over both maps: one call of index for an
\* entry of either map.
DirtyIndexAnyOrder(d, max) ==
    /\ d \in DOMAIN dirtyJobs
    /\ dirtyJobs[d].pc = "index"
    /\ lastJobId < max
    /\ \E pch \in BOOLEAN :
          LET job == dirtyJobs[d]
              from == IF pch THEN job.mToIndexPch ELSE job.mToIndex
          IN  /\ from /= EmptyHash
              /\ \E u \in DOMAIN from :
                    /\ index(u, from[u])
                    /\ dirtyCalls' = dirtyCalls \cup {DirtyCall(d, u)}
                    /\ LET rest == [x \in (DOMAIN from) \ {u} |-> from[x]]
                       IN  dirtyJobs' = [dirtyJobs EXCEPT
                                            ![d].mToIndexPch = IF pch THEN rest ELSE @,
                                            ![d].mToIndex = IF pch THEN @ ELSE rest]
    /\ UNCHANGED <<regVars, dirtyCount, eventQueue, bufVars, syncer, dbVars, fs,
                   indexingDone, assertFailed,
                   lastDir>>

\* DirtyJob::run, lines 390-393: one call of index, for an entry of
\* mToIndexPch while there is one, then for an entry of mToIndex; index
\* admits jobs while lastJobId < max.
DirtyIndex(d, max) ==
    /\ d \in DOMAIN dirtyJobs
    /\ dirtyJobs[d].pc = "index"
    /\ lastJobId < max
    /\ LET job == dirtyJobs[d]
           pch == job.mToIndexPch /= EmptyHash
           from == IF pch THEN job.mToIndexPch ELSE job.mToIndex
       IN  /\ from /= EmptyHash
           /\ \E u \in DOMAIN from :
                 /\ index(u, from[u])
                 /\ dirtyCalls' = dirtyCalls \cup {DirtyCall(d, u)}
                 /\ LET rest == [x \in (DOMAIN from) \ {u} |-> from[x]]
                    IN  dirtyJobs' = [dirtyJobs EXCEPT
                                         ![d].mToIndexPch = IF pch THEN rest ELSE @,
                                         ![d].mToIndex = IF pch THEN @ ELSE rest]
    /\ UNCHANGED <<regVars, dirtyCount, eventQueue, bufVars, syncer, dbVars, fs,
                   indexingDone, assertFailed,
                   lastDir>>

\* run() returns and the pool deletes the DirtyJob.
DirtyReturn(d) ==
    /\ d \in DOMAIN dirtyJobs
    /\ dirtyJobs[d].pc = "index"
    /\ dirtyJobs[d].mToIndexPch = EmptyHash
    /\ dirtyJobs[d].mToIndex = EmptyHash
    /\ dirtyJobs' = [x \in (DOMAIN dirtyJobs) \ {d} |-> dirtyJobs[x]]
    /\ UNCHANGED <<coordVars, regVars, run, dirtyCount, poolQueue, eventQueue,
                   bufVars, syncer, dbVars, fs, obsVars>>

\* ------------------------------------------------------------ specification
JobIds == 0..(MaxJobs - 1)

JobStepOf(ids) ==
    \E j \in ids :
       \/ JobStart(j)
       \/ JobWait(j)
       \/ JobParse(j)
       \/ JobVisit(j)
       \/ JobAddSymbolNames(j)
       \/ JobAddFileInformation(j)
       \/ JobSetPchDependencies(j)
       \/ JobPchError(j)
       \/ JobEmitDone(j)

JobStep == JobStepOf(JobIds)

SyncerStep ==
    \/ SyncerSwap
    \/ SyncerSymbolNames
    \/ SyncerSymbols
    \/ SyncerDependencies
    \/ SyncerInformations

DirtyStepBelow(max) ==
    \E d \in 0..(MaxDirChanges - 1) :
       \/ DirtyStart(d)
       \/ DirtySymbols(d)
       \/ DirtySymbolNames(d)
       \/ DirtyIndex(d, max)
       \/ DirtyReturn(d)

DirtyStep == DirtyStepBelow(MaxJobs)

\* The coordinator, the worker pool and the coordinator's event queue.
Next ==
    \/ ClientIndex
    \/ JobStep
    \/ CustomEvent
    \/ JobDone

Spec == Init /\ [][Next]_vars

\* The same under fair scheduling: a pool thread that can run does, and the
\* Indexer's thread delivers the events of its queue.
FairSpec ==
    /\ Init
    /\ [][Next]_vars
    /\ WF_vars(JobStep)
    /\ WF_vars(CustomEvent)
    /\ WF_vars(JobDone)

\* With the watch registry and the DirtyJobs, on the storage of an earlier run.
NextDirty ==
    \/ ClientIndex
    \/ JobStep
    \/ CustomEvent
    \/ JobDone
    \/ TouchFile
    \/ DirectoryChanged
    \/ DirtyStep

SpecDirty == InitEarlier /\ [][NextDirty]_vars

\* With the IndexerSyncer thread, on an empty storage.
NextSync ==
    \/ ClientIndex
    \/ JobStep
    \/ CustomEvent
    \/ JobDone
    \/ SyncerStep

SpecSync == Init /\ [][NextSync]_vars

\* The watch registry and the DirtyJobs after PchH and Cpp have been
\* indexed: every parse job of the run is one a DirtyJob has asked for.
ReindexIds == 0..(MaxReindexJobs - 1)

NextReindex ==
    \/ JobStepOf(ReindexIds)
    \/ CustomEvent
    \/ JobDone
    \/ TouchFile
    \/ DirectoryChanged
    \/ DirtyStepBelow(MaxReindexJobs)

SpecReindex == InitIndexed /\ [][NextReindex]_vars

\* The same where files are also removed from disk.
NextWatch ==
    \/ NextReindex
    \/ RemoveFile

SpecWatch == InitIndexed /\ [][NextWatch]_vars

\* The coordinator and the pool late in a batch: SYNCINTERVAL - 1 jobs have
\* completed and MaxBatchJobs more are admitted.
BatchIds == 0..(SYNCINTERVAL - 1 + MaxBatchJobs - 1)

NextBatch ==
    \/ ClientIndexBelow(SYNCINTERVAL - 1 + MaxBatchJobs)
    \/ JobStepOf(BatchIds)
    \/ CustomEvent
    \/ JobDone

SpecBatch == InitBatch /\ [][NextBatch]_vars

\* The DirtyJobs together with the IndexerSyncer thread, on the storage of
\* an earlier run, for the first MaxFewJobs parse jobs.
ClientIndexFew == lastJobId < MaxFewJobs /\ ClientIndex

DirtyStepFew == DirtyStep /\ lastJobId' <= MaxFewJobs

NextDirtySync ==
    \/ ClientIndexFew
    \/ JobStep
    \/ CustomEvent
    \/ JobDone
    \/ SyncerStep
    \/ TouchFile
    \/ DirectoryChanged
    \/ DirtyStepFew

SpecDirtySync == InitEarlier /\ [][NextDirtySync]_vars

\* The IndexerSyncer thread on a storage whose tables may fail to open, for
\* the first MaxFewJobs parse jobs.
NextStoreFails ==
    \/ ClientIndexFew
    \/ JobStep
    \/ CustomEvent
    \/ JobDone
    \/ SyncerStep
    \/ SyncerOpenFails

SpecStoreFails == Init /\ [][NextStoreFails]_vars

\* Argument vectors a client may pass: every vector of at most MaxArgLen
\* tokens over the tokens the two scans of lines 688-725 and 894-907 test.
MaxArgLen == 4      \* an argument vector has at most MaxArgLen tokens

ArgAlphabet == {"-x", "c++-header", "c++", "-include-pch", ""}

ArgVectors == UNION {[1..n -> ArgAlphabet] : n \in 0..MaxArgLen}

DefaultArgChoices == {<<>>, <<"-x", "c++-header">>, <<"-x", "c++">>}

\* Indexer::setDefaultArgs (lines 1005-1007), called before the first index.
setDefaultArgs ==
    /\ lastJobId = 0
    /\ defaultArgs = <<>>
    /\ \E a \in DefaultArgChoices \ {<<>>} : defaultArgs' = a
    /\ UNCHANGED <<indexing, pchHeaderError, jobs, lastJobId, jobCounter, timerRunning,
                   regVars, run, dirtyJobs, dirtyCount, poolQueue, eventQueue, bufVars,
                   syncer, dbVars, fs, obsVars>>

\* A client thread calling index(Cpp, a) with any argument vector.
ClientIndexAny ==
    /\ lastJobId < MaxFewJobs
    /\ \E a \in ArgVectors : index(Cpp, a)
    /\ UNCHANGED <<regVars, dirtyJobs, dirtyCount, eventQueue, bufVars, syncer, dbVars, fs,
                   indexingDone, assertFailed,
                   lastDir, dirtyCalls>>

\* The first MaxFewJobs parse jobs over arbitrary argument vectors and
\* default arguments.
NextArgs ==
    \/ setDefaultArgs
    \/ ClientIndexAny
    \/ JobStep
    \/ CustomEvent
    \/ JobDone

SpecArgs == Init /\ [][NextArgs]_vars

\* A source file that names two precompiled headers, PchH and Sys.
TwoPchArgs == <<"-include-pch", PchH, "-include-pch", Sys>>

WaitArgChoices(t) == IF t = Cpp THEN {TwoPchArgs} ELSE {PchArgs}

\* A client thread calling index for a header or for the source file that
\* includes both headers.
ClientIndexHeaders ==
    /\ lastJobId < MaxJobs
    /\ \E t \in Files : \E a \in WaitArgChoices(t) : index(t, a)
    /\ UNCHANGED <<regVars, dirtyJobs, dirtyCount, eventQueue, bufVars, syncer, dbVars, fs,
                   indexingDone, assertFailed,
                   lastDir, dirtyCalls>>

\* Parse jobs of two headers and of a source file that waits for both.
NextWait ==
    \/ ClientIndexHeaders
    \/ JobStep
    \/ CustomEvent
    \/ JobDone

SpecWait == Init /\ [][NextWait]_vars

\* ------------------------------------- store accesses as reads and writes
\* A leveldb::WriteBatch: the staged puts and the staged deletes.
ApplyBatch(db, batch) ==
    [k \in ((DOMAIN db) \ batch.del) \cup (DOMAIN batch.put) |->
        IF k \in DOMAIN batch.put THEN batch.put[k] ELSE db[k]]

\* Lines 153-168: the batch the flusher stages for the SymbolName table.
SymbolNamesBatch(db, added) ==
    [put |-> [k \in GrownKeys(db, added) |-> Value(db, k) \cup added[k]],
     del |-> {}]

\* Lines 179-192: the batch the flusher stages for the Symbol table.
SymbolsBatch(db, added) ==
    [put |-> [k \in {x \in DOMAIN added : unite(ReadInfo(db, x), added[x]).changed} |->
                 unite(ReadInfo(db, k), added[k]).info],
     del |-> {}]

\* Lines 1023-1051: the batch a DirtyJob stages for the Symbol table.
SweepSymbolsBatch(db, mDirty) ==
    LET swept == [k \in DOMAIN db |-> dirtyInfo(db[k], mDirty)]
        gone == {k \in DOMAIN db :
                    \/ k[1] \in mDirty
                    \/ /\ swept[k] /= db[k]
                       /\ swept[k].target = NullLoc
                       /\ swept[k].references = {}}
    IN  [put |-> [k \in {x \in (DOMAIN db) \ gone : swept[x] /= db[x]} |-> swept[k]],
         del |-> gone]

\* Lines 1066-1093: the batch a DirtyJob stages for the SymbolName table.
SweepSymbolNamesBatch(db, mDirty) ==
    LET swept == [k \in DOMAIN db |-> {l \in db[k] : l[1] \notin mDirty}]
        gone == {k \in DOMAIN db : swept[k] /= db[k] /\ swept[k] = {}}
    IN  [put |-> [k \in {x \in (DOMAIN db) \ gone : swept[x] /= db[x]} |-> swept[k]],
         del |-> gone]

WithoutBatch(r) == [f \in (DOMAIN r) \ {"batch"} |-> r[f]]

\* Lines 153-168: the reads of the SymbolName table and the staged batch.
SyncerSymbolNamesRead ==
    /\ syncer.pc = "symbolNames"
    /\ syncer' = [pc |-> "symbolNamesWrite",
                  batch |-> SymbolNamesBatch(dbSymbolName, syncer.symbolNames)] @@ syncer
    /\ UNCHANGED <<coordVars, regVars, run, dirtyJobs, dirtyCount, poolQueue, eventQueue,
                   bufVars, dbVars, fs, obsVars>>

\* Lines 170-171: db.db()->Write of the staged batch.
SyncerSymbolNamesWrite ==
    /\ syncer.pc = "symbolNamesWrite"
    /\ dbSymbolName' = ApplyBatch(dbSymbolName, syncer.batch)
    /\ syncer' = [pc |-> "symbols", symbolNames |-> EmptyHash] @@ WithoutBatch(syncer)
    /\ UNCHANGED <<coordVars, regVars, run, dirtyJobs, dirtyCount, poolQueue, eventQueue,
                   bufVars, dbSymbol, dbDependency, dbFileInformation, fs, obsVars>>

\* Lines 179-192: the reads of the Symbol table and the staged batch.
SyncerSymbolsRead ==
    /\ syncer.pc = "symbols"
    /\ syncer' = [pc |-> "symbolsWrite",
                  batch |-> SymbolsBatch(dbSymbol, syncer.symbols)] @@ syncer
    /\ UNCHANGED <<coordVars, regVars, run, dirtyJobs, dirtyCount, poolQueue, eventQueue,
                   bufVars, dbVars, fs, obsVars>>

\* Lines 194-195: db.db()->Write of the staged batch.
SyncerSymbolsWrite ==
    /\ syncer.pc = "symbolsWrite"
    /\ dbSymbol' = ApplyBatch(dbSymbol, syncer.batch)
    /\ syncer' = [pc |-> "dependencies", symbols |-> EmptyHash] @@ WithoutBatch(syncer)
    /\ UNCHANGED <<coordVars, regVars, run, dirtyJobs, dirtyCount, poolQueue, eventQueue,
                   bufVars, dbSymbolName, dbDependency, dbFileInformation, fs,
                   obsVars>>

\* Lines 1023-1051: the iteration over the Symbol table and the staged batch.
DirtySymbolsRead(d) ==
    /\ d \in DOMAIN dirtyJobs
    /\ dirtyJobs[d].pc = "symbols"
    /\ dirtyJobs' = [dirtyJobs EXCEPT ![d] =
                        [pc |-> "symbolsWrite",
                         batch |-> SweepSymbolsBatch(dbSymbol, dirtyJobs[d].mDirty)] @@ @]
    /\ UNCHANGED <<coordVars, regVars, run, dirtyCount, poolQueue, eventQueue,
                   bufVars, syncer, dbVars, fs, obsVars>>

\* Lines 1053-1055: db.db()->Write of the staged batch.
DirtySymbolsWrite(d) ==
    /\ d \in DOMAIN dirtyJobs
    /\ dirtyJobs[d].pc = "symbolsWrite"
    /\ dbSymbol' = ApplyBatch(dbSymbol, dirtyJobs[d].batch)
    /\ dirtyJobs' = [dirtyJobs EXCEPT ![d] = [pc |-> "symbolNames"] @@ WithoutBatch(@)]
    /\ UNCHANGED <<coordVars, regVars, run, dirtyCount, poolQueue, eventQueue,
                   bufVars, syncer, dbSymbolName, dbDependency,
                   dbFileInformation, fs, obsVars>>

\* Lines 1066-1093: the iteration over the SymbolName table and the staged
\* batch.
DirtySymbolNamesRead(d) ==
    /\ d \in DOMAIN dirtyJobs
    /\ dirtyJobs[d].pc = "symbolNames"
    /\ dirtyJobs' = [dirtyJobs EXCEPT ![d] =
                        [pc |-> "symbolNamesWrite",
                         batch |-> SweepSymbolNamesBatch(dbSymbolName,
                                                         dirtyJobs[d].mDirty)] @@ @]
    /\ UNCHANGED <<coordVars, regVars, run, dirtyCount, poolQueue, eventQueue,
                   bufVars, syncer, dbVars, fs, obsVars>>

\* Lines 1095-1097: db.db()->Write of the staged batch.
DirtySymbolNamesWrite(d) ==
    /\ d \in DOMAIN dirtyJobs
    /\ dirtyJobs[d].pc = "symbolNamesWrite"
    /\ dbSymbolName' = ApplyBatch(dbSymbolName, dirtyJobs[d].batch)
    /\ dirtyJobs' = [dirtyJobs EXCEPT ![d] = [pc |-> "index"] @@ WithoutBatch(@)]
    /\ UNCHANGED <<coordVars, regVars, run, dirtyCount, poolQueue, eventQueue,
                   bufVars, syncer, dbSymbol, dbDependency, dbFileInformation,
                   fs, obsVars>>

\* The IndexerSyncer thread and the DirtyJobs with every access of the
\* Symbol and SymbolName tables as a read step and a write step.
SyncerReadWriteStep ==
    \/ SyncerSwap
    \/ SyncerSymbolNamesRead
    \/ SyncerSymbolNamesWrite
    \/ SyncerSymbolsRead
    \/ SyncerSymbolsWrite
    \/ SyncerDependencies
    \/ SyncerInformations

DirtyReadWriteStep ==
    \E d \in 0..(MaxDirChanges - 1) :
       \/ DirtyStart(d)
       \/ DirtySymbolsRead(d)
       \/ DirtySymbolsWrite(d)
       \/ DirtySymbolNamesRead(d)
       \/ DirtySymbolNamesWrite(d)
       \/ DirtyIndex(d, MaxJobs) /\ lastJobId' <= MaxFewJobs
       \/ DirtyReturn(d)

NextOverlap ==
    \/ ClientIndexFew
    \/ JobStep
    \/ CustomEvent
    \/ JobDone
    \/ SyncerReadWriteStep
    \/ TouchFile
    \/ DirectoryChanged
    \/ DirtyReadWriteStep

SpecOverlap == InitEarlier /\ [][NextOverlap]_vars

\* ------------------------------------------------------------------ claims
\* C1: a call of index for an input that is in the indexing set returns -1
\* and leaves indexing, jobs, lastJobId, timerRunning, the job objects and
\* the pool's queue as they were: no id is used and no job is created or
\* submitted.
C1_RefusedIndexChangesNothing ==
    [][(lastCall'.tick /= lastCall.tick /\ lastCall'.input \in indexing)
          => /\ lastCall'.ret = -1
             /\ UNCHANGED <<indexing, jobs, lastJobId, timerRunning, run, poolQueue>>]_vars

\* A call of index has been refused while its input was in flight.
C1_Witness ==
    /\ lastCall.ret = -1
    /\ lastCall.input \in indexing
    /\ jobs /= EmptyHash

\* C2: no two entries of the jobs map have the same input.
C2_OneJobPerUnit ==
    \A j \in DOMAIN jobs : \A k \in DOMAIN jobs :
        jobs[j].mIn = jobs[k].mIn => j = k

\* Two jobs are in the map while a DirtyJob is calling index and a call for
\* a unit in flight has just been refused.
C2_Witness ==
    /\ Cardinality(DOMAIN jobs) = 2
    /\ \E d \in DOMAIN dirtyJobs : dirtyJobs[d].pc = "index"
    /\ lastCall.ret = -1
    /\ lastCall.input \in indexing

\* A parse job for t has been admitted and its done signal has not been
\* delivered to onJobDone: its run() has not emitted done yet, or the signal
\* is in the event queue.
InFlight(t) ==
    \/ \E j \in DOMAIN run : run[j].mIn = t
    \/ \E i \in 1..Len(eventQueue) :
          eventQueue[i].type = "done" /\ eventQueue[i].input = t

\* C3: a unit is in the indexing set exactly while a job admitted for it
\* has not had its done signal processed by onJobDone.
C3_IndexingIffInFlight == \A t \in TUs : t \in indexing <=> InFlight(t)

\* A job has emitted done, the signal is still queued and the unit is still
\* in the indexing set, after another job was retired.
C3_Witness ==
    \E i \in 1..Len(eventQueue) :
        /\ eventQueue[i].type = "done"
        /\ eventQueue[i].input \in indexing
        /\ \E k \in DOMAIN indexingDone : k /= eventQueue[i].id

\* The elements of a list.
Range(s) == {s[i] : i \in 1..Len(s)}

\* C4: while a job that kept an -include-pch header in its arguments is
\* between the end of its wait loop and the end of its parse, that header is
\* not in the indexing set.
C4_NoParseWhileProducerInFlight ==
    \A j \in DOMAIN run :
        run[j].pc = "parsing"
            => \A h \in Range(extractPchFiles(run[j].args)) : h \notin indexing

\* args without every "-include-pch" that is followed by a header of errs,
\* and without that header.
RECURSIVE DropPairsFrom(_, _, _)
DropPairsFrom(args, i, errs) ==
    IF i > Len(args) THEN <<>>
    ELSE IF args[i] = "-include-pch" /\ i < Len(args) /\ args[i + 1] \in errs
         THEN DropPairsFrom(args, i + 2, errs)
         ELSE <<args[i]>> \o DropPairsFrom(args, i + 1, errs)

DropPairs(args, errs) == DropPairsFrom(args, 1, errs)

\* C5: a job whose unit parsed and whose PCH save failed has its input in
\* pchHeaderError when it is about to emit done; and a job that leaves the
\* wait loop goes on to parse with its arguments less the -include-pch pairs
\* of the headers in pchHeaderError, everything else kept in order.
C5_SaveFailureDropsPair ==
    [][/\ \A j \in DOMAIN run' :
             (run'[j].pc = "emit" /\ run'[j].unit = "ok" /\ run'[j].pchError)
                 => run'[j].mIn \in pchHeaderError'
       /\ \A j \in (DOMAIN run) \cap (DOMAIN run') :
             (run[j].pc = "wait" /\ run'[j].pc = "parsing")
                 => run'[j].args =
                       DropPairs(run[j].mArgs \o defaultArgs, pchHeaderError)]_vars

\* The save of PchH failed after a good parse, and a consumer admitted with
\* ConsArgs is about to parse without the pair.
C5_Witness ==
    /\ PchH \in pchHeaderError
    /\ PchH \in DOMAIN history
    /\ history[PchH].last = "ok"
    /\ \E j \in DOMAIN run :
          /\ run[j].pc = "parsing"
          /\ run[j].mArgs = ConsArgs
          /\ run[j].args = <<"-I/d", "-DX">>

\* The done signals of job j in the event queue.
DoneSignals(j) ==
    {i \in 1..Len(eventQueue) : eventQueue[i].type = "done" /\ eventQueue[i].id = j}

\* C6: the step in which the parser returns no unit posts no event and
\* touches no buffer; every later step of that job leaves the buffers and
\* pchDeps alone and adds nothing to the event queue but its done signal,
\* which it emits as it ends; the signal is never queued twice, and the job
\* is retired in the end.
C6_NullUnitOnlyEmitsDone ==
    /\ [][\A j \in DOMAIN run :
             /\ (run[j].unit = "none" /\ j \in DOMAIN run' /\ run'[j].unit = "null")
                   => /\ UNCHANGED <<bufVars, pchDeps, eventQueue>>
                      /\ run'[j].pc \in {"fin", "emit"}
             /\ (run[j].unit = "null" /\ (j \notin DOMAIN run' \/ run'[j] /= run[j]))
                   => /\ UNCHANGED <<bufVars, pchDeps>>
                      /\ \/ eventQueue' = eventQueue /\ j \in DOMAIN run'
                         \/ /\ eventQueue' =
                                  Append(eventQueue, [type |-> "done", id |-> j,
                                                      input |-> run[j].mIn])
                            /\ j \notin DOMAIN run'
                            /\ DoneSignals(j) = {}]_vars
    /\ \A j \in JobIds :
          (j \in DOMAIN run /\ run[j].unit = "null") ~> (j \notin DOMAIN jobs)

\* A job whose parser returned no unit has emitted done while the buffers
\* hold the output of another job.
C6_Witness ==
    /\ mSymbols /= EmptyHash
    /\ \E i \in 1..Len(eventQueue) :
          /\ eventQueue[i].type = "done"
          /\ eventQueue[i].input \in DOMAIN history
          /\ history[eventQueue[i].input].last = "failed"
          /\ history[eventQueue[i].input].parsed = 0

\* C7: every job in the jobs map is removed from it in the end.
C7_EveryJobRetires ==
    \A id \in JobIds : (id \in DOMAIN jobs) ~> (id \notin DOMAIN jobs)

\* C8: indexingDone is emitted in the end for every id index returned.
C8_EveryReturnedIdFires ==
    \A id \in JobIds : (id \in returned) ~> (id \in DOMAIN indexingDone)

\* indexingDone has been emitted once for each id it was emitted for, each
\* of them returned by index and gone from jobs; and the step that emits it
\* leaves the job out of jobs and its input out of indexing.
C8_FiresOnceAfterRemoval ==
    [][/\ \A id \in DOMAIN indexingDone' :
             /\ indexingDone'[id] = 1
             /\ id \in returned'
             /\ id \notin DOMAIN jobs'
       /\ \A id \in (DOMAIN indexingDone') \ (DOMAIN indexingDone) :
             /\ id \in DOMAIN jobs
             /\ jobs[id].mIn \notin indexing']_vars

\* The IndexerSyncer is in its wait loop with nothing left to write for the
\* FileInformation table, and no job of t is running.
InformationsDrained(t) ==
    /\ syncer.pc = "wait"
    /\ mInformations = EmptyHash
    /\ \A j \in DOMAIN run : run[j].mIn /= t

\* C9 as stated: once a unit has parsed in some job, the drained
\* FileInformation table holds for it the arguments of the most recent
\* admitted call of index.
C9_LastAdmittedArgsStored ==
    \A t \in TUs :
        (t \in DOMAIN history /\ history[t].parsed > 0 /\ InformationsDrained(t))
            => /\ t \in DOMAIN dbFileInformation
               /\ dbFileInformation[t] = history[t].admitted

\* C9 amended: once a unit has parsed in some job, the drained
\* FileInformation table holds for it the arguments of the most recent
\* admitted call of index whose job parsed the unit; in particular those of
\* the most recent admitted call when its job parsed the unit.
C9_LastParsedArgsStored ==
    \A t \in TUs :
        (t \in DOMAIN history /\ history[t].parsed > 0 /\ InformationsDrained(t))
            => /\ t \in DOMAIN dbFileInformation
               /\ dbFileInformation[t] = history[t].okArgs
               /\ history[t].last = "ok" => dbFileInformation[t] = history[t].admitted

\* Three jobs of Cpp ran one after another, two parsed the unit and the
\* last one, admitted with other arguments, did not; the table is drained.
C9_Witness ==
    /\ Cpp \in DOMAIN history
    /\ history[Cpp].parsed = 2
    /\ history[Cpp].last = "failed"
    /\ history[Cpp].admitted /= history[Cpp].okArgs
    /\ InformationsDrained(Cpp)
    /\ Cpp \in DOMAIN dbFileInformation
    /\ dbFileInformation[Cpp] = history[Cpp].okArgs

\* C10: the file of every key of the Symbol table is a key of the
\* Dependency table, with a set that is not empty.
C10_SymbolPathsHaveDependencies ==
    \A l \in DOMAIN dbSymbol :
        /\ l[1] \in DOMAIN dbDependency
        /\ dbDependency[l[1]] /= {}

\* No key of the Symbol table, no target and no reference of its values and
\* no Location of the SymbolName table lies in a file of D.
SweptOf(D, symbol, symbolName) ==
    /\ \A l \in DOMAIN symbol :
          /\ l[1] \notin D
          /\ symbol[l].target[1] \notin D
          /\ \A r \in symbol[l].references : r[1] \notin D
    /\ \A n \in DOMAIN symbolName : \A l \in symbolName[n] : l[1] \notin D

\* C11: when a DirtyJob ends its second sweep, the Symbol and SymbolName
\* tables hold nothing of the files of its dirty set.
C11_SweptWhenSweepsEnd ==
    [][\A d \in DOMAIN dirtyJobs :
          (dirtyJobs[d].pc = "symbolNames" /\ d \in DOMAIN dirtyJobs'
             /\ dirtyJobs'[d].pc = "index")
              => SweptOf(dirtyJobs[d].mDirty, dbSymbol', dbSymbolName')]_vars

\* What a job of t handed to the IndexerSyncer is in the tables or still
\* pending: in a buffer or in the swapped-out locals of the running cycle.
StoredOrPending(t) ==
    /\ \A n \in DOMAIN JobSymbolNames(t) :
          JobSymbolNames(t)[n] \subseteq
              (Value(dbSymbolName, n) \cup Value(mSymbolNames, n)
                  \cup Value(syncer.symbolNames, n))
    /\ \A l \in DOMAIN JobSymbols(t) :
          l \in (DOMAIN dbSymbol) \cup (DOMAIN mSymbols) \cup (DOMAIN syncer.symbols)
    /\ t \in (DOMAIN dbFileInformation) \cup (DOMAIN mInformations)
                \cup (DOMAIN syncer.informations)

\* C12: whatever a parsed unit's job has handed to the IndexerSyncer is
\* stored or pending, also after a table failed to open.
C12_NothingLostWhenOpenFails ==
    \A t \in TUs :
        (/\ t \in DOMAIN history
         /\ history[t].parsed > 0
         /\ \A j \in DOMAIN run : run[j].mIn /= t)
            => StoredOrPending(t)

\* C13: a call of onDirectoryChanged for a directory that has no entry in
\* watched changes nothing else: the registry, the tables, the DirtyJobs,
\* the pool queue, the jobs and the buffers stay as they were.
C13_WatchMissChangesNothing ==
    [][(lastDir' /= lastDir /\ lastDir' \notin DOMAIN watched)
          => UNCHANGED <<coordVars, regVars, run, dirtyJobs, dirtyCount, poolQueue,
                         eventQueue, bufVars, syncer, dbVars, fs, lastCall,
                         returned, indexingDone, history>>]_vars

\* onDirectoryChanged has been called for a directory without an entry
\* while another directory is watched and a file of it has changed.
C13_Witness ==
    /\ lastDir /= ""
    /\ lastDir \notin DOMAIN watched
    /\ Dir \in DOMAIN watched
    /\ ChangedPairs(Dir) /= {}

\* Every set of the delta is within the set the table holds for its key.
SetsContained(delta, db) ==
    \A k \in DOMAIN delta : delta[k] \subseteq Value(db, k)

\* The table holds, for every key of the delta, the references of the
\* added CursorInfo, and a target and a symbolLength where the added one
\* has them.
InfosContained(delta, db) ==
    \A l \in DOMAIN delta :
        /\ l \in DOMAIN db
        /\ delta[l].references \subseteq db[l].references
        /\ delta[l].target /= NullLoc => db[l].target /= NullLoc
        /\ delta[l].symbolLength /= 0 => db[l].symbolLength /= 0

\* C14: a step of the IndexerSyncer thread changes the SymbolName, Symbol
\* or Dependency table only when the swapped-out delta of that table holds
\* something the table does not, and the FileInformation table only when
\* the swapped-out informations are not empty; a cycle that swapped out
\* nothing changes no table.
C14_NoPutWithoutNews ==
    [][(syncer' /= syncer)
          => /\ dbSymbolName' /= dbSymbolName
                  => ~SetsContained(syncer.symbolNames, dbSymbolName)
             /\ dbSymbol' /= dbSymbol
                  => ~InfosContained(syncer.symbols, dbSymbol)
             /\ dbDependency' /= dbDependency
                  => ~SetsContained(syncer.dependencies, dbDependency)
             /\ dbFileInformation' /= dbFileInformation
                  => syncer.informations /= EmptyHash]_vars

\* A cycle has written the tables of symbol names and symbols and stands
\* before the Dependency table with a delta the table already contains.
C14_Witness ==
    /\ syncer.pc = "dependencies"
    /\ syncer.dependencies /= EmptyHash
    /\ SetsContained(syncer.dependencies, dbDependency)
    /\ dbSymbol /= EmptyHash

\* Every key of the old hash of sets is a key of the new one, with a set
\* that contains the old set.
SetsGrow(old, new) ==
    \A k \in DOMAIN old : k \in DOMAIN new /\ old[k] \subseteq new[k]

\* Every key of the old hash of CursorInfos is a key of the new one; its
\* references are kept, and so are its target and its symbolLength where
\* it had them.
InfosGrow(old, new) ==
    \A l \in DOMAIN old :
        /\ l \in DOMAIN new
        /\ old[l].references \subseteq new[l].references
        /\ old[l].target /= NullLoc => new[l].target = old[l].target
        /\ old[l].symbolLength /= 0 => new[l].symbolLength = old[l].symbolLength

\* The step is the swap of IndexerSyncer::run.
IsSwap == syncer.pc = "wait" /\ syncer'.pc /= "wait"

\* C15: a step other than the swap keeps every entry of mSymbols,
\* mSymbolNames and mDependencies within its new value; a job that has
\* called addSymbols or addSymbolNames, and a commit of dependencies, finds
\* what it added in the buffer; and the swap hands the four buffers as they
\* are to the cycle and leaves all four empty.
C15_BuffersGrowUntilSwap ==
    [][/\ ~IsSwap
          => /\ InfosGrow(mSymbols, mSymbols')
             /\ SetsGrow(mSymbolNames, mSymbolNames')
             /\ SetsGrow(mDependencies, mDependencies')
       /\ \A j \in (DOMAIN run) \cap (DOMAIN run') :
             /\ (run[j].pc = "visit" /\ run'[j].pc /= "visit")
                   => InfosGrow(JobSymbols(run[j].mIn), mSymbols')
             /\ (run[j].pc = "addSymbolNames" /\ run'[j].pc /= "addSymbolNames")
                   => SetsGrow(JobSymbolNames(run[j].mIn), mSymbolNames')
       /\ \A k \in DOMAIN dependencies' :
             (dependencies'[k] \ Value(dependencies, k))
                 \subseteq Value(mDependencies', k)
       /\ IsSwap
          => /\ syncer'.symbols = mSymbols
             /\ syncer'.symbolNames = mSymbolNames
             /\ syncer'.dependencies = mDependencies
             /\ syncer'.informations = mInformations
             /\ mSymbols' = EmptyHash
             /\ mSymbolNames' = EmptyHash
             /\ mDependencies' = EmptyHash
             /\ mInformations' = EmptyHash]_vars

\* The symbol names of both units are in the buffer together: two jobs
\* have added to it since the last swap.
C15_Witness ==
    /\ "v" \in DOMAIN mSymbolNames
    /\ "main" \in DOMAIN mSymbolNames
    /\ Loc(PchH, 3) \in DOMAIN mSymbols
    /\ Loc(Cpp, 10) \in DOMAIN mSymbols

\* C16: when onJobDone runs for a job that parsed its unit, the edges the
\* job's inclusion visit recorded are in the dependencies map already, and
\* no DependencyEvent of that unit (one that makes the unit depend on
\* itself, as the visit of the main file does) is left in the event queue.
C16_DependenciesBeforeDone ==
    [][\A id \in (DOMAIN indexingDone') \ (DOMAIN indexingDone) :
          (id \in DOMAIN jobs /\ history[jobs[id].mIn].last = "ok")
              => LET t == jobs[id].mIn
                     deps == InclusionDependencies(t, defaultArgs)
                 IN  /\ \A k \in DOMAIN deps : deps[k] \subseteq Value(dependencies, k)
                     /\ \A i \in 1..Len(eventQueue) :
                           eventQueue[i].type = "dependency"
                               => t \notin Value(eventQueue[i].deps, t)]_vars

\* indexingDone has been emitted for a job that parsed Cpp, whose edges
\* are in the dependencies map, while a job of PchH is in flight.
C16_Witness ==
    /\ indexingDone /= EmptyHash
    /\ Cpp \in DOMAIN history
    /\ history[Cpp].last = "ok"
    /\ Cpp \notin indexing
    /\ Cpp \in DOMAIN dependencies
    /\ PchH \in indexing

\* The step is a call of index that was admitted.
IsAdmittedCall == lastCall' /= lastCall /\ lastCall'.ret /= -1

\* C17 as stated: an admitted call of index returns the lowest id that is
\* not a key of jobs, and never the id of a job in flight.
C17_ReturnsLowestFreeId ==
    [][IsAdmittedCall
          => /\ lastCall'.ret \notin DOMAIN jobs
             /\ \A k \in 0..(lastCall'.ret - 1) : k \in DOMAIN jobs]_vars

\* C17 amended: an admitted call of index returns the lowest id from
\* lastJobId on that is not a key of jobs and leaves lastJobId one above it,
\* so the id is not that of a job in flight, has never been returned before
\* and is above every id returned before.
C17_ReturnsNextUnusedId ==
    [][IsAdmittedCall
          => /\ lastCall'.ret >= lastJobId
             /\ lastCall'.ret \notin DOMAIN jobs
             /\ \A k \in lastJobId..(lastCall'.ret - 1) : k \in DOMAIN jobs
             /\ lastJobId' = lastCall'.ret + 1
             /\ lastCall'.ret \notin returned
             /\ \A r \in returned : r < lastCall'.ret]_vars

\* index has returned 1 for Cpp, whose job is still in the pool's queue,
\* after job 0 parsed Cpp and was removed from jobs: id 0 was free and was
\* not taken.
C17_Witness ==
    /\ lastCall = [input |-> Cpp, ret |-> 1, tick |-> lastCall.tick]
    /\ 1 \in DOMAIN run
    /\ run[1].pc = "queued"
    /\ run[1].mIn = Cpp
    /\ history[Cpp].parsed = 1
    /\ 0 \in DOMAIN indexingDone
    /\ DOMAIN jobs = {1}

\* Every call of index by a DirtyJob comes after its two sweeps (no Symbol
\* key, target or reference and no SymbolName location of its dirty set is
\* left), the unit is in indexing after the call, and a call for an entry
\* of the non-PCH map finds the PCH map used up.
DirtyCallsInOrder ==
    \A q \in dirtyCalls' \ dirtyCalls :
        LET job == dirtyJobs[q.job]
        IN  /\ job.pc = "index"
            /\ SweptOf(job.mDirty, dbSymbol, dbSymbolName)
            /\ q.unit \in indexing'
            /\ q.unit \in DOMAIN job.mToIndex => job.mToIndexPch = EmptyHash

\* The calls of index for PCH units named in job j's arguments that were
\* made by the DirtyJob that asked for job j.
ProducerCalls(j) ==
    {q \in dirtyCalls :
        /\ \E r \in dirtyCalls :
              r.id = j /\ r.unit = run[j].mIn /\ r.job = q.job
        /\ q.unit /= run[j].mIn
        /\ q.unit \in Range(extractPchFiles(run[j].mArgs))}

\* Job j leaves the pool's queue and comes to its wait loop in this step.
ReachesWait(j) ==
    /\ j \in DOMAIN run
    /\ j \in DOMAIN run'
    /\ run[j].pc = "queued"
    /\ run'[j].pc /= "queued"

\* C18 as stated: a DirtyJob calls index for its PCH map before its non-PCH
\* map and after both sweeps, and every PCH unit it has asked for is in
\* the indexing set when a job it has asked for, whose arguments name that
\* unit, comes to its wait loop.
C18_ProducersInIndexingAtWait ==
    [][/\ DirtyCallsInOrder
       /\ \A j \in DOMAIN run :
             ReachesWait(j) => \A q \in ProducerCalls(j) : q.unit \in indexing]_vars

\* C18 amended: a DirtyJob calls index for its PCH map before its non-PCH
\* map and after both sweeps, and when a job it has asked for comes to its
\* wait loop every PCH unit it has asked for that the job's arguments name
\* is in the indexing set or its parse job has been retired by onJobDone.
C18_ProducersAskedForBeforeWait ==
    [][/\ DirtyCallsInOrder
       /\ \A j \in DOMAIN run :
             ReachesWait(j)
                 => \A q \in ProducerCalls(j) :
                        q.unit \in indexing \/ q.id \in DOMAIN indexingDone]_vars

\* A DirtyJob has asked for PchH and then for Cpp, Cpp's job is in its wait
\* loop and the job of PchH has not been retired.
C18_Witness ==
    \E j \in DOMAIN run :
        /\ run[j].mIn = Cpp
        /\ run[j].pc \in {"wait", "blocked"}
        /\ \E q \in ProducerCalls(j) :
              q.unit = PchH /\ PchH \in indexing /\ q.id < j

\* C19: a call of onJobDone that leaves the jobs map empty, or that brings
\* jobCounter to SYNCINTERVAL, calls syncer->notify().
C19_NotifiesAtSyncInterval ==
    [][(indexingDone' /= indexingDone
          /\ (jobs' = EmptyHash \/ jobCounter' = SYNCINTERVAL))
         => notified']_vars

\* C20: the IndexerSyncer stays in its wait loop only while all four
\* buffers are empty: whenever it is in the loop and mSymbols, mSymbolNames,
\* mDependencies or mInformations holds data, it can leave the loop and swap
\* the buffers out.
C20_SwapWhenAnyBufferHoldsData ==
    (/\ syncer.pc = "wait"
     /\ \/ mSymbols /= EmptyHash
        \/ mSymbolNames /= EmptyHash
        \/ mDependencies /= EmptyHash
        \/ mInformations /= EmptyHash)
        => ENABLED SyncerSwap

\* No job of h stands between the outcome of its parse or of its PCH save
\* and the update of pchHeaderError (lines 733-812).
PchSettled(h, r) ==
    \A j \in DOMAIN r :
        r[j].mIn = h => r[j].pc \in {"queued", "wait", "blocked", "parsing", "emit"}

\* C21: once the last PCH-producing job of a header has come to the end of
\* run(), the header is in pchHeaderError exactly when that job got no unit
\* or could not save the PCH; and pchHeaderError is changed only by a job
\* with mIsPch at lines 805-812, and only in the entry of its own input.
C21_ErrorSetFollowsLastPchJob ==
    [][/\ \A h \in DOMAIN history' :
             PchSettled(h, run')
                 => (h \in pchHeaderError' <=> history'[h].pch = "failed")
       /\ pchHeaderError' /= pchHeaderError
             => \E j \in DOMAIN run :
                   /\ run[j].mIsPch
                   /\ run[j].pc = "fin"
                   /\ pchHeaderError' \ {run[j].mIn} = pchHeaderError \ {run[j].mIn}]_vars

\* Two jobs of PchH have been retired; one of them got no unit, the last
\* one parsed and saved the PCH, and PchH is not in pchHeaderError.
C21_Witness ==
    /\ DOMAIN history = {PchH}
    /\ Cardinality(DOMAIN indexingDone) = 2
    /\ jobs = EmptyHash
    /\ history[PchH].parsed = 1
    /\ history[PchH].pch = "ok"
    /\ PchH \notin pchHeaderError

\* The edges of a DependencyHash.
Edges(h) == UNION {{<<k, v>> : v \in h[k]} : k \in DOMAIN h}

\* The step delivers a DependencyEvent to customEvent.
IsCommit ==
    /\ eventQueue /= <<>>
    /\ Head(eventQueue).type = "dependency"
    /\ eventQueue' = Tail(eventQueue)

\* C22: commitDependencies(delta) leaves dependencies[k] united with
\* delta[k] for every key of delta and every other key as it was, and what
\* it adds to the IndexerSyncer's buffer are the edges of delta that were
\* not in dependencies before the call, and no other edge.
C22_CommitForwardsNewEdgesOnly ==
    [][IsCommit
         => LET delta == Head(eventQueue).deps
            IN  /\ \A k \in DOMAIN delta :
                      /\ k \in DOMAIN dependencies'
                      /\ dependencies'[k] = Value(dependencies, k) \cup delta[k]
                /\ \A k \in ((DOMAIN dependencies) \cup (DOMAIN dependencies'))
                              \ (DOMAIN delta) :
                      /\ k \in DOMAIN dependencies
                      /\ k \in DOMAIN dependencies'
                      /\ dependencies'[k] = dependencies[k]
                /\ Edges(mDependencies')
                      = Edges(mDependencies) \cup (Edges(delta) \ Edges(dependencies))]_vars

\* A delta whose edges were all committed before, and written out by the
\* flusher, has been committed again: the buffer has its keys and no edge.
C22_Witness ==
    /\ mDependencies /= EmptyHash
    /\ Edges(mDependencies) = {}
    /\ Cpp \in DOMAIN mDependencies
    /\ Cpp \in Value(dbDependency, Cpp)

\* The step is a call of onDirectoryChanged(p) that found p in watched.
IsWatchedChange(p) ==
    /\ dirtyCount' = dirtyCount + 1
    /\ lastDir' = p
    /\ p \in DOMAIN watched

\* C23: onDirectoryChanged for a watched directory removes exactly the
\* pairs whose file is missing or modified and marks their files dirty,
\* puts a pair with the current mtime back for those of them that still
\* exist and for no other, and leaves the other pairs and the sets of the
\* other directories as they were.
C23_ChangedPairsRearmedIfPresent ==
    [][\A p \in Dirs :
          IsWatchedChange(p)
              => LET changed == ChangedPairs(p)
                     present == {w \in changed : fs[p \o w[1]] /= 0}
                 IN  /\ DOMAIN watched' = DOMAIN watched
                     /\ watched'[p] = (watched[p] \ changed)
                                      \cup {<<w[1], fs[p \o w[1]]>> : w \in present}
                     /\ \A q \in (DOMAIN watched) \ {p} : watched'[q] = watched[q]
                     /\ {p \o w[1] : w \in changed}
                           \subseteq dirtyJobs'[dirtyCount].mDirty]_vars

\* Every pair of the watched map names a file that has an entry in the
\* dependencies map: commitDependencies inserts pairs only for keys it has
\* just put into dependencies (lines 279-305), and no entry of dependencies
\* is ever removed.  The branch of onDirectoryChanged for a changed file
\* without such an entry (lines 948-952) is therefore never taken.
WatchedHaveDependencies ==
    \A p \in DOMAIN watched :
        \A w \in watched[p] : p \o w[1] \in DOMAIN dependencies

\* A parse job that is past its argument loop (lines 688-725).
PastArgLoop(j) == run[j].pc \notin {"queued", "wait", "parsing"}

\* C25: for every argument vector, isPch applied to the vector the job was
\* given classifies the unit as PCH-producing exactly when the parse job's own
\* argument loop sets mIsPch.
C25_IsPchAgreesWithJob ==
    \A j \in DOMAIN run : PastArgLoop(j) => (run[j].mIsPch = isPch(run[j].mArgs))

\* C26: whenever a parse job runs a pass of its PCH wait loop, every header
\* of the pass that is in pchHeaderError is found in the working args at an
\* index greater than 0, on the first pass and on every retry.
C26_ErroredPairFoundOnEveryPass ==
    [][\A j \in DOMAIN run :
          (run[j].pc = "wait" /\ run'[j].pc /= "wait")
          => WaitPass(run[j].pchHeaders, run[j].args, pchHeaderError, indexing).ok]_vars

\* C27: in every state, timerRunning is true exactly when the jobs map is
\* not empty, and every call of onJobDone that leaves the jobs map empty
\* finds timerRunning true (the assertion of line 996), whether the jobs
\* were admitted for a client or for a DirtyJob.
C27_TimerRunsIffJobsInFlight ==
    /\ [](timerRunning <=> jobs /= EmptyHash)
    /\ [][(indexingDone' /= indexingDone /\ jobs' = EmptyHash) => timerRunning]_vars

\* The wall timer was started by a DirtyJob's call of index when no job was
\* in flight, and the last job has been retired since.
C27_Witness ==
    /\ jobs = EmptyHash
    /\ ~timerRunning
    /\ \E c \in dirtyCalls :
          /\ c.ret = c.id
          /\ c.id \in DOMAIN indexingDone
          /\ \A k \in DOMAIN indexingDone : k <= c.id

\* C28: when a DirtyJob's call of index is refused because a job for the
\* unit is in the indexing set, that job has not started its parse yet, so
\* the unit is still parsed after the DirtyJob's sweeps were committed.
C28_RefusedRequestParsedAfterSweep ==
    [][\A c \in dirtyCalls' \ dirtyCalls :
          c.ret = -1 => /\ c.id \in DOMAIN run
                        /\ run[c.id].pc \in {"queued", "wait", "blocked", "parsing"}]_vars

=============================================================================
